---- MODULE Spec2Model ----
(***************************************************************************)
(* Vigileye risk and threat scoring engine.                                *)
(*                                                                         *)
(*   backend/services/aiService.js   AIService.analyzeThreat and helpers   *)
(*   backend/services/otxService.js  fetchPulses / getOverview             *)
(*   backend/services/nlpService.js  the security text analyzer            *)
(*   routes of the text analyzer     POST /api/nlp/batch-analyze           *)
(*   backend/routes/breach-lookup.js POST /api/breach-lookup/check         *)
(*   backend/routes/reports.js       POST, PUT, DELETE /api/reports        *)
(*   the ScanReport model            pre-save hook, calculateSummary       *)
(*                                                                         *)
(* Text is a sequence of tokens (strings).  A provider response is a       *)
(* sequence of lines joined by "\n"; each line is a sequence of tokens.    *)
(* Confidence values are kept in hundredths (0.6 is 60).                   *)
(***************************************************************************)
EXTENDS Integers, Sequences, FiniteSets, TLC

VARIABLES
  apiKey,         \* process.env.OPENAI_API_KEY is set
  threatData,     \* argument of the analyzeThreat call in progress
  analysisType,   \* second argument of analyzeThreat
  aiPc,           \* position of the analyzeThreat call
  providerCalls,  \* chat.completions.create invocations made by this call
  verdict,        \* what analyzeThreat returned (NoVerdict before it returns)
  zone,           \* time zone of the host (offsets in hours around one transition)
  now,            \* the clock, in hours since day 0, 00:00 UTC
  otxPc,          \* position of the getOverview call
  days,           \* argument of getOverview
  candidate,      \* index of the endpoint whose response is awaited
  requests,       \* urls requested with axios.get, in order
  served,         \* what the endpoints answered, in order (the network's log)
  attempts,       \* the attempts array of fetchPulses
  results,        \* the results fetchPulses returned
  overview,       \* what getOverview returned (NoOverview before it returns)
  nlpInput,       \* argument of the text analyzer call in progress
  nlpFunction,    \* the function called: analyzeSecurityText or classifySecurityText
  nlpOutcome,     \* what the call returned or threw (NoOutcome before it ends)
  batchBody,      \* req.body of the batch-analyze request
  batchFaults,    \* positions of the texts whose analysis threw
  batchResponse,  \* what the batch-analyze handler sent (NoResponse before)
  checkBody,      \* req.body of the breach-lookup request
  checkerOut,     \* what the checker process prints and exits with, if it exits
  checker,        \* the checker process: none, running, failed, killed, exited
  elapsed,        \* milliseconds since setTimeout
  timer,          \* the 30 s timer: unset, armed, fired
  sent,           \* responses sent on res, in order
  serverUp,       \* the server process has not died of an uncaught exception
  jsonCalls,      \* calls of res.json made for the breach-lookup request
  pulse,          \* argument of tagCategory / severityFromPulse
  derived,        \* category and severity derived from pulse (NoDerived before)
  report,         \* the stored scan report (NoReport when there is none)
  reportReply,    \* the last response of a scan report route
  reportClock     \* the clock of the scan report routes, in milliseconds

aiVars == <<apiKey, threatData, analysisType, aiPc, providerCalls, verdict>>

otxVars ==
  <<zone, now, otxPc, days, candidate, requests, served, attempts, results, overview>>

nlpVars == <<nlpInput, nlpFunction, nlpOutcome>>

batchVars == <<batchBody, batchFaults, batchResponse>>

checkVars ==
  <<checkBody, checkerOut, checker, elapsed, timer, sent, serverUp, jsonCalls>>

pulseVars == <<pulse, derived>>

reportVars == <<report, reportReply, reportClock>>

vars == <<aiVars, otxVars, nlpVars, batchVars, checkVars, pulseVars, reportVars>>

(***************************************************************************)
(* Bounds                                                                  *)
(***************************************************************************)
MaxLines == 2     \* lines in one provider response
MaxPulses == 2    \* pulses in one endpoint response
MaxDays == 2      \* largest days argument of getOverview
MaxWords == 2     \* words in a short text
MaxTexts == 2     \* texts in one batch
MaxBreaches == 2  \* breaches the checker reports
MaxPastes == 2    \* pastes the checker reports
MaxTags == 2      \* tags of one pulse
MaxClock == 3     \* steps of the scan report clock

\* batchAnalysisSchema: texts has at most 50 items
BatchLimit == 50

\* the delay of the setTimeout of POST /check, and the step of the clock
TimeoutMs == 30000

TickMs == TimeoutMs \div 3

(***************************************************************************)
(* Inputs                                                                  *)
(***************************************************************************)
\* severity values the route handlers pass; "absent" is a missing field
Severities == {"critical", "high", "medium", "low", "info", "absent"}

AnalysisTypes == {"threatAnalysis", "breachAnalysis", "riskAssessment"}

ThreatInputs == [severity : Severities]

NoVerdict == [none |-> TRUE]

VerdictFields ==
  {"riskScore", "threatLevel", "confidence", "recommendations", "keyFindings",
   "rawResponse", "analysisType", "timestamp"}

\* new Date().toISOString(): an opaque timestamp string
IsoNow == "iso-timestamp"

(***************************************************************************)
(* Response text                                                           *)
(***************************************************************************)
LevelWords == {"low", "medium", "high", "critical", "HIGH"}

toLowerCase(w) == IF w = "HIGH" THEN "high" ELSE w

\* numeric literals that occur in the modelled responses
NumberTokens == {"85", "150", "20", "0.9"}

\* the leading digit run of a numeric literal: what (\d+) captures
DigitRun(n) == IF n = "0.9" THEN "0" ELSE n

parseInt(d) ==
  CASE d = "85" -> 85
    [] d = "150" -> 150
    [] d = "20" -> 20
    [] d = "0" -> 0

\* parseFloat of what (\d+\.?\d*) captures, in hundredths
parseFloat(n) ==
  CASE n = "85" -> 8500
    [] n = "150" -> 15000
    [] n = "20" -> 2000
    [] n = "0.9" -> 90

\* characters matched by [:\s]
Separators == {":", " ", "\n"}

\* lines a provider response is made of
ResponseLines ==
  { <<"risk score", ":", " ", "85">>,
    <<"risk score", ":", " ", "150">>,
    <<"risk score", " ", "(", "0.9", ")">>,
    <<"risk score", ":">>,
    <<"20">>,
    <<"threat level", ":", " ", "low">>,
    <<"threat level", ":", " ", "HIGH">>,
    <<"confidence", ":", " ", "0.9">>,
    <<"confidence", ":", " ", "85", "%">>,
    <<"recommendation", ":">>,
    <<"key", " ", "finding", ":">>,
    <<" ", "-", " ", "patch">>,
    <<"-", " ", "recommendation">> }

RECURSIVE Join(_)
\* lines.join('\n')
Join(lines) ==
  IF lines = <<>> THEN <<>>
  ELSE IF Len(lines) = 1 THEN lines[1]
  ELSE lines[1] \o <<"\n">> \o Join(Tail(lines))

RECURSIVE Split(_, _)
\* text.split('\n'), cur being the line under construction
Split(text, cur) ==
  IF text = <<>> THEN <<cur>>
  ELSE IF Head(text) = "\n" THEN <<cur>> \o Split(Tail(text), <<>>)
  ELSE Split(Tail(text), Append(cur, Head(text)))

LineSeqs == UNION {[1..n -> ResponseLines] : n \in 0..MaxLines}

\* message.content of a resolved provider call; NullContent is content: null
NullContent == <<"<null>">>

Contents == {Join(ls) : ls \in LineSeqs} \cup {NullContent}

(***************************************************************************)
(* AIService.parseAIResponse and its helpers                               *)
(***************************************************************************)
\* index of the first token after position i that is not matched by [:\s]*
RECURSIVE SkipSeparators(_, _)
SkipSeparators(text, i) ==
  IF i > Len(text) THEN i
  ELSE IF text[i] \in Separators THEN SkipSeparators(text, i + 1)
  ELSE i

\* positions where  label[:\s]*(capture)  matches
MatchPositions(text, label, captures) ==
  {i \in 1..Len(text) :
     /\ text[i] = label
     /\ SkipSeparators(text, i + 1) <= Len(text)
     /\ text[SkipSeparators(text, i + 1)] \in captures}

Min(S) == CHOOSE x \in S : \A y \in S : x <= y

NoMatch == "<no match>"

\* response.match(/label[:\s]*(capture)/i)[1], or NoMatch when match() is null
RegexMatch(text, label, captures) ==
  IF MatchPositions(text, label, captures) = {} THEN NoMatch
  ELSE text[SkipSeparators(text, Min(MatchPositions(text, label, captures)) + 1)]

riskScoreMatch(response) == RegexMatch(response, "risk score", NumberTokens)

threatLevelMatch(response) == RegexMatch(response, "threat level", LevelWords)

confidenceMatch(response) == RegexMatch(response, "confidence", NumberTokens)

RECURSIVE TrimLeft(_)
TrimLeft(line) ==
  IF line # <<>> /\ Head(line) = " " THEN TrimLeft(Tail(line)) ELSE line

RECURSIVE TrimRight(_)
TrimRight(line) ==
  IF line # <<>> /\ line[Len(line)] = " "
  THEN TrimRight(SubSeq(line, 1, Len(line) - 1))
  ELSE line

\* String.prototype.trim
trim(line) == TrimRight(TrimLeft(line))

\* line.toLowerCase().includes(word)
includes(line, word) == \E i \in 1..Len(line) : line[i] = word

\* line.trim().startsWith('-')
IsBullet(line) == trim(line) # <<>> /\ Head(trim(line)) = "-"

\* line.trim().substring(1).trim()
BulletText(line) == trim(Tail(trim(line)))

\* the forEach of extractRecommendations / extractKeyFindings: a line holding
\* the section word switches the flag on and is skipped; afterwards every
\* bullet line is collected
RECURSIVE CollectBullets(_, _, _)
CollectBullets(lines, word, inSection) ==
  IF lines = <<>> THEN <<>>
  ELSE IF includes(Head(lines), word) THEN CollectBullets(Tail(lines), word, TRUE)
  ELSE IF inSection /\ IsBullet(Head(lines))
       THEN <<BulletText(Head(lines))>> \o CollectBullets(Tail(lines), word, inSection)
  ELSE CollectBullets(Tail(lines), word, inSection)

extractRecommendations(response) ==
  IF Len(CollectBullets(Split(response, <<>>), "recommendation", FALSE)) > 0
  THEN CollectBullets(Split(response, <<>>), "recommendation", FALSE)
  ELSE << <<"Review incident details">> >>

\* variant: the findings are read from the recommendation section
extractKeyFindingsOfRecommendations(response) == extractRecommendations(response)

extractKeyFindings(response) ==
  IF Len(CollectBullets(Split(response, <<>>), "finding", FALSE)) > 0
  THEN CollectBullets(Split(response, <<>>), "finding", FALSE)
  ELSE << <<"Analysis completed">> >>

\* the catch block of parseAIResponse
ParseFailureVerdict(response, type) ==
  [riskScore |-> 50,
   threatLevel |-> "medium",
   confidence |-> 50,
   recommendations |-> << <<"Manual review required">> >>,
   keyFindings |-> << <<"AI analysis failed">> >>,
   rawResponse |-> response,
   analysisType |-> type,
   timestamp |-> IsoNow]

\* response.match on a null response is a TypeError, caught by parseAIResponse
parseAIResponse(response, type) ==
  IF response = NullContent THEN ParseFailureVerdict(response, type)
  ELSE
    [riskScore |->
       IF riskScoreMatch(response) # NoMatch
       THEN parseInt(DigitRun(riskScoreMatch(response))) ELSE 50,
     threatLevel |->
       IF threatLevelMatch(response) # NoMatch
       THEN toLowerCase(threatLevelMatch(response)) ELSE "medium",
     confidence |->
       IF confidenceMatch(response) # NoMatch
       THEN parseFloat(confidenceMatch(response)) ELSE 70,
     recommendations |-> extractRecommendations(response),
     keyFindings |-> extractKeyFindings(response),
     rawResponse |-> response,
     analysisType |-> type,
     timestamp |-> IsoNow]

(***************************************************************************)
(* AIService.fallbackAnalysis                                              *)
(***************************************************************************)
\* variant: the 'low' branch of the rule table is lost
FallbackRiskScoreNoLow(severity) ==
  CASE severity = "critical" -> 90
    [] severity = "high" -> 75
    [] OTHER -> 50

FallbackRiskScore(severity) ==
  CASE severity = "critical" -> 90
    [] severity = "high" -> 75
    [] severity = "low" -> 25
    [] OTHER -> 50

FallbackThreatLevel(severity) ==
  CASE severity = "critical" -> "critical"
    [] severity = "high" -> "high"
    [] severity = "low" -> "low"
    [] OTHER -> "medium"

FallbackRecommendations(severity) ==
  CASE severity = "critical" ->
         << <<"Immediate action required">>, <<"Escalate to security team">> >>
    [] severity = "high" -> << <<"Priority review needed">> >>
    [] severity = "low" -> << <<"Standard monitoring">> >>
    [] OTHER -> << <<"Manual review recommended">> >>

fallbackAnalysis(data, type) ==
  [riskScore |-> FallbackRiskScore(data.severity),
   threatLevel |-> FallbackThreatLevel(data.severity),
   confidence |-> 60,
   recommendations |-> FallbackRecommendations(data.severity),
   keyFindings |-> << <<"Automated analysis completed">> >>,
   rawResponse |-> <<"Fallback analysis - AI service unavailable">>,
   analysisType |-> type,
   timestamp |-> IsoNow]

(***************************************************************************)
(* AIService.analyzeThreat                                                 *)
(***************************************************************************)
Returned(v) == [status |-> "ok", value |-> v]

Thrown == [status |-> "throw"]

\* variant: the catch block logs and rethrows
CatchHandlerRethrows(data, type) == Thrown

\* the catch block of analyzeThreat: log, then return the fallback verdict
CatchHandler(data, type) == Returned(fallbackAnalysis(data, type))

\* try { body } catch { handler }
TryCatch(body, data, type) ==
  IF body.status = "throw" THEN CatchHandler(data, type) ELSE body

\* what the provider call settles to
ProviderOutcomes ==
  {[kind |-> "rejected"], [kind |-> "nochoices"]}
    \cup {[kind |-> "content", content |-> c] : c \in Contents}

\* lines 53-54: response.choices[0].message.content, then parseAIResponse
AfterAwait(outcome, type) ==
  CASE outcome.kind = "rejected" -> Thrown
    [] outcome.kind = "nochoices" -> Thrown
    [] outcome.kind = "content" -> Returned(parseAIResponse(outcome.content, type))

\* the caller's view of a settled call
Settle(result) ==
  /\ aiPc' = IF result.status = "ok" THEN "returned" ELSE "threw"
  /\ verdict' = IF result.status = "ok" THEN result.value ELSE NoVerdict

\* lines 36-39: no credential, the fallback verdict is returned at once
AnalyzeThreatNoKey ==
  /\ aiPc = "idle"
  /\ ~apiKey
  /\ Settle(TryCatch(Returned(fallbackAnalysis(threatData, analysisType)),
                     threatData, analysisType))
  /\ UNCHANGED <<apiKey, threatData, analysisType, providerCalls>>
  /\ UNCHANGED <<otxVars, nlpVars, batchVars, checkVars, pulseVars, reportVars>>

\* lines 41-51: the prompt is built and the request is sent
AnalyzeThreatCall ==
  /\ aiPc = "idle"
  /\ apiKey
  /\ aiPc' = "awaiting"
  /\ providerCalls' = providerCalls + 1
  /\ UNCHANGED <<apiKey, threatData, analysisType, verdict>>
  /\ UNCHANGED <<otxVars, nlpVars, batchVars, checkVars, pulseVars, reportVars>>

\* variant: a rejected call is sent again instead of falling back
ProviderSettlesRetries ==
  /\ aiPc = "awaiting"
  /\ \E outcome \in ProviderOutcomes :
       IF outcome.kind = "rejected"
       THEN /\ providerCalls' = providerCalls + 1
            /\ UNCHANGED <<aiPc, verdict>>
       ELSE /\ Settle(TryCatch(AfterAwait(outcome, analysisType),
                               threatData, analysisType))
            /\ UNCHANGED providerCalls
  /\ UNCHANGED <<apiKey, threatData, analysisType>>
  /\ UNCHANGED <<otxVars, nlpVars, batchVars, checkVars, pulseVars, reportVars>>

\* the awaited promise settles; lines 53-59 run
ProviderSettles ==
  /\ aiPc = "awaiting"
  /\ \E outcome \in ProviderOutcomes :
       Settle(TryCatch(AfterAwait(outcome, analysisType), threatData, analysisType))
  /\ UNCHANGED <<apiKey, threatData, analysisType, providerCalls>>
  /\ UNCHANGED <<otxVars, nlpVars, batchVars, checkVars, pulseVars, reportVars>>

\* a route handler makes the next call
NextCall ==
  /\ aiPc \in {"returned", "threw"}
  /\ threatData' \in ThreatInputs
  /\ analysisType' \in AnalysisTypes
  /\ aiPc' = "idle"
  /\ providerCalls' = 0
  /\ verdict' = NoVerdict
  /\ UNCHANGED apiKey
  /\ UNCHANGED <<otxVars, nlpVars, batchVars, checkVars, pulseVars, reportVars>>

AINext ==
  \/ AnalyzeThreatNoKey
  \/ AnalyzeThreatCall
  \/ ProviderSettles
  \/ NextCall

(***************************************************************************)
(* Clock and calendar of otxService.js.  Instants are hours since day 0,   *)
(* 00:00 UTC; an ISO string denotes its instant and its first ten          *)
(* characters the UTC day number.  Date.prototype.getDate and setDate work *)
(* on the host's local time.                                               *)
(***************************************************************************)
\* the instant at which the host zone's offset changes
TransitionAt == 5 * 24 + 6

\* hosts: a zone (its offsets before and after the change; UTC, one leaving
\* and one entering daylight saving time) and the instant of the call
HostClocks ==
  { <<[before |-> 0, after |-> 0], 5 * 24 + 12>>,
    <<[before |-> 0, after |-> 0], 6 * 24>>,
    <<[before |-> -4, after |-> -5], 6 * 24>>,
    <<[before |-> -5, after |-> -4], 5 * 24 + 23>> }

Offset(z, t) == IF t < TransitionAt THEN z.before ELSE z.after

\* local wall-clock reading of an instant
LocalTime(z, t) == t + Offset(z, t)

\* the instant of a local wall-clock reading: a repeated reading is taken
\* before the change, a skipped one with the offset before the change
UtcOf(z, wall) ==
  IF wall - z.before < TransitionAt THEN wall - z.before
  ELSE IF wall - z.after >= TransitionAt THEN wall - z.after
  ELSE wall - z.before

\* d = new Date(t); d.setDate(d.getDate() - n)
SetDateBack(z, t, n) == UtcOf(z, LocalTime(z, t) - 24 * n)

daysAgoISO(z, t, n) == SetDateBack(z, t, n)

\* a timestamp field that is missing, and one that does not parse
Absent == -1

Invalid == -2

\* toDateOnly's null
NullKey == -1

toDateOnly(dt) == IF dt = Invalid THEN NullKey ELSE dt \div 24

\* a || b on timestamp fields
OrElse(a, b) == IF a # Absent THEN a ELSE b

(***************************************************************************)
(* Pulses                                                                  *)
(***************************************************************************)
\* indicators field that is not an array
NotArray == -1

\* lower-cased tag strings and the rule words each contains
TagWords ==
  [t \in {"phishing", "credential-theft", "ransomware", "apt28", "malware",
          "botnet", "ddos", "dos", "bruteforce", "unauthorized",
          "data-exfiltration", "leak", "misc"} |->
     CASE t = "phishing" -> {"phishing"}
       [] t = "credential-theft" -> {"credential"}
       [] t = "ransomware" -> {"ransomware"}
       [] t = "apt28" -> {"apt"}
       [] t = "malware" -> {"malware"}
       [] t = "botnet" -> {"botnet"}
       [] t = "ddos" -> {"ddos", "dos"}
       [] t = "dos" -> {"dos"}
       [] t = "bruteforce" -> {"bruteforce"}
       [] t = "unauthorized" -> {"unauthorized"}
       [] t = "data-exfiltration" -> {"exfiltr"}
       [] t = "leak" -> {"leak"}
       [] OTHER -> {}]

\* String(t).toLowerCase() for the tags pulses carry
TagLower ==
  [t \in DOMAIN TagWords \cup {"Phishing", "DDoS", "Ransomware"} |->
     CASE t = "Phishing" -> "phishing"
       [] t = "DDoS" -> "ddos"
       [] t = "Ransomware" -> "ransomware"
       [] OTHER -> t]

\* lower.some(t => words.some(w => t.includes(w)))
SomeTagIncludes(tags, words) ==
  \E i \in 1..Len(tags) : TagWords[TagLower[tags[i]]] \cap words # {}

\* tagCategory with the last matching rule winning
tagCategoryLastMatch(tags) ==
  IF SomeTagIncludes(tags, {"ddos", "dos"}) THEN "DDoS Attacks"
  ELSE IF SomeTagIncludes(tags, {"exfiltr", "leak"}) THEN "Data Exfiltration"
  ELSE IF SomeTagIncludes(tags, {"bruteforce", "credential", "unauthorized"})
       THEN "Unauthorized Access"
  ELSE IF SomeTagIncludes(tags, {"ransomware", "malware", "botnet"})
       THEN "Malware Detections"
  ELSE IF SomeTagIncludes(tags, {"phishing", "credential"}) THEN "Phishing Attempts"
  ELSE "Other"

tagCategory(tags) ==
  IF SomeTagIncludes(tags, {"phishing", "credential"}) THEN "Phishing Attempts"
  ELSE IF SomeTagIncludes(tags, {"ransomware", "malware", "botnet"})
       THEN "Malware Detections"
  ELSE IF SomeTagIncludes(tags, {"bruteforce", "credential", "unauthorized"})
       THEN "Unauthorized Access"
  ELSE IF SomeTagIncludes(tags, {"exfiltr", "leak"}) THEN "Data Exfiltration"
  ELSE IF SomeTagIncludes(tags, {"ddos", "dos"}) THEN "DDoS Attacks"
  ELSE "Other"

\* Array.isArray(p.indicators) ? p.indicators.length : 0
IndicatorCount(p) == IF p.indicators = NotArray THEN 0 ELSE p.indicators

\* the base score with the two middle buckets exchanged
SeverityBaseExchanged(count) ==
  IF count >= 30 THEN 10 ELSE IF count >= 15 THEN 4 ELSE IF count >= 7 THEN 7 ELSE 2

SeverityBase(count) ==
  IF count >= 30 THEN 10 ELSE IF count >= 15 THEN 7 ELSE IF count >= 7 THEN 4 ELSE 2

SeverityBonus(tags) ==
  IF SomeTagIncludes(tags, {"ransomware", "apt"}) THEN 4
  ELSE IF SomeTagIncludes(tags, {"malware", "ddos", "botnet"}) THEN 3
  ELSE IF SomeTagIncludes(tags, {"phishing"}) THEN 2
  ELSE 0

SeverityOfScore(score) ==
  IF score >= 10 THEN "critical"
  ELSE IF score >= 7 THEN "high"
  ELSE IF score >= 4 THEN "medium"
  ELSE "low"

severityFromPulse(p) ==
  SeverityOfScore(SeverityBase(IndicatorCount(p)) + SeverityBonus(p.tags))

Pulse(m, c, u, n, tags) ==
  [modified |-> m, created |-> c, updated |-> u, indicators |-> n, tags |-> tags]

\* pulses the endpoints may deliver
PulseCatalog ==
  { Pulse(5 * 24 + 10, 5 * 24 + 2, Absent, 3, <<"phishing">>),
    Pulse(5 * 24 + 11, Absent, Absent, 30, <<"ransomware", "misc">>),
    Pulse(4 * 24 + 19, Absent, Absent, 1, <<"ddos">>),
    Pulse(10, 10, Absent, 15, <<"malware">>),
    Pulse(Absent, Absent, Absent, NotArray, <<>>),
    Pulse(Absent, Absent, 5 * 24 + 9, 7, <<"credential-theft">>),
    Pulse(Invalid, 5 * 24 + 10, Absent, 0, <<"leak">>),
    Pulse(Absent, 4 * 24 + 3, Absent, 15, <<"apt28">>),
    Pulse(4 * 24, Absent, Absent, 2, <<"bruteforce">>) }

\* a longer answer: recent pulses of all six categories, in unequal numbers
LargeFeed ==
  << Pulse(5 * 24 + 10, Absent, Absent, 3, <<"Phishing">>),
     Pulse(5 * 24 + 10, Absent, Absent, 30, <<"ransomware">>),
     Pulse(5 * 24 + 11, Absent, Absent, 1, <<"data-exfiltration">>),
     Pulse(5 * 24 + 11, Absent, Absent, 7, <<"DDoS">>),
     Pulse(Absent, 5 * 24 + 10, Absent, 0, <<"bruteforce">>),
     Pulse(Absent, Absent, Absent, NotArray, <<"misc">>),
     Pulse(5 * 24 + 11, Absent, Absent, 15, <<"botnet">>),
     Pulse(5 * 24 + 11, Absent, Absent, 2, <<"dos">>),
     Pulse(5 * 24 + 11, Absent, Absent, 2, <<"ddos", "misc">>) >>

PulseLists == UNION {[1..n -> PulseCatalog] : n \in 0..MaxPulses} \cup {LargeFeed}

(***************************************************************************)
(* fetchPulses                                                             *)
(***************************************************************************)
\* the candidates array, in order
Url(k) ==
  CASE k = 1 -> "/pulses/subscribed"
    [] k = 2 -> "/search/pulses"
    [] k = 3 -> "/pulses"

\* res.data of a 2xx response: null, an object without a results field, an
\* object whose results field is not a list, an object with a results list,
\* or a bare array
ResponseBodies ==
  {[shape |-> sh, list |-> <<>>] : sh \in {"null", "noresults", "badresults"}}
    \cup {[shape |-> sh, list |-> l] : sh \in {"results", "array"}, l \in PulseLists}

\* c.parser(res.data) throws: a property of null is read
ParserThrows(body) == body.shape = "null"

\* c.parser(res.data): d.results, and for the third candidate
\* Array.isArray(d) ? d : d.results; isArray tells whether the value is a list
parser(k, body) ==
  CASE body.shape = "results" -> [isArray |-> TRUE, items |-> body.list]
    [] body.shape = "array" ->
         IF k = 3 THEN [isArray |-> TRUE, items |-> body.list]
         ELSE [isArray |-> FALSE, items |-> <<>>]
    [] OTHER -> [isArray |-> FALSE, items |-> <<>>]

\* c.parser(res.data) || [] followed by the Array.isArray(data) && data.length
\* test: the list that is returned, or <<>> when the loop goes on
UsableData(k, body) ==
  IF parser(k, body).isArray THEN parser(k, body).items ELSE <<>>

\* status codes of a rejected request: e.response.status, or 0 without one
FailureStatuses == {0, 500}

(***************************************************************************)
(* getOverview: the real-data path                                         *)
(***************************************************************************)
\* p.modified || p.created || p.updated
When(p) == OrElse(p.modified, OrElse(p.created, p.updated))

\* variant: a pulse dated exactly at the start of the window is dropped
InWindowExclusive(p, since) ==
  IF When(p) = Absent THEN TRUE
  ELSE IF When(p) = Invalid THEN FALSE
  ELSE When(p) > since

\* the filter predicate of line 86: a comparison with an invalid date is false
InWindow(p, since) ==
  IF When(p) = Absent THEN TRUE
  ELSE IF When(p) = Invalid THEN FALSE
  ELSE When(p) >= since

RECURSIVE Filter(_, _)
Filter(pulses, since) ==
  IF pulses = <<>> THEN <<>>
  ELSE IF InWindow(Head(pulses), since)
       THEN <<Head(pulses)>> \o Filter(Tail(pulses), since)
  ELSE Filter(Tail(pulses), since)

\* toDateOnly(p.modified || p.created || Date.now())
DateKey(p, t) == toDateOnly(OrElse(p.modified, OrElse(p.created, t)))

\* Math.max(1, Math.round(indicators.length * 0.5) || 1)
ThreatIncrement(p) ==
  IF (IndicatorCount(p) + 1) \div 2 >= 1 THEN (IndicatorCount(p) + 1) \div 2 ELSE 1

\* Math.round(threats * 0.7) in double arithmetic (45 * 0.7 is
\* 31.499999999999996; exact below 85 otherwise)
RoundSeventy(threats) == IF threats = 45 THEN 31 ELSE (7 * threats + 5) \div 10

ZeroDay == [threats |-> 0, resolved |-> 0]

\* lines 131-136 for one pulse: the entry of its date after the tally
Tallied(map, p, t) ==
  LET k == DateKey(p, t)
      old == IF k \in DOMAIN map THEN map[k] ELSE ZeroDay
      threats == old.threats + ThreatIncrement(p)
  IN [threats |-> threats, resolved |-> old.resolved + RoundSeventy(threats)]

RECURSIVE TrendMap(_, _, _)
\* trendMap after the loop of lines 120-137 over the pulses, starting from map
TrendMap(pulses, map, t) ==
  IF pulses = <<>> THEN map
  ELSE TrendMap(Tail(pulses),
                [k \in DOMAIN map \cup {DateKey(Head(pulses), t)} |->
                   IF k = DateKey(Head(pulses), t) THEN Tallied(map, Head(pulses), t)
                   ELSE map[k]],
                t)

EmptyMap == [k \in {} |-> ZeroDay]

\* the date of trend entry i (i = days - 1 down to 0)
TrendDate(z, t, i) == toDateOnly(SetDateBack(z, t, i))

\* lines 140-148
TrendArray(map, z, t, n) ==
  [j \in 1..n |->
     [date |-> TrendDate(z, t, n - j),
      threats |-> IF TrendDate(z, t, n - j) \in DOMAIN map
                  THEN map[TrendDate(z, t, n - j)].threats ELSE 0,
      resolved |-> IF TrendDate(z, t, n - j) \in DOMAIN map
                   THEN map[TrendDate(z, t, n - j)].resolved ELSE 0]]

\* severityCount[sev] after the loop
SeverityCount(pulses, sev) ==
  Cardinality({i \in 1..Len(pulses) : severityFromPulse(pulses[i]) = sev})

RECURSIVE IndicatorsTotal(_)
IndicatorsTotal(pulses) ==
  IF pulses = <<>> THEN 0
  ELSE IndicatorCount(Head(pulses)) + IndicatorsTotal(Tail(pulses))

\* categoryMap as its entries in insertion order
RECURSIVE CategoryEntries(_, _)
CategoryEntries(pulses, entries) ==
  IF pulses = <<>> THEN entries
  ELSE LET cat == tagCategory(Head(pulses).tags)
           at == {i \in 1..Len(entries) : entries[i].name = cat}
       IN CategoryEntries(
            Tail(pulses),
            IF at = {} THEN Append(entries, [name |-> cat, count |-> 1])
            ELSE [i \in 1..Len(entries) |->
                    IF i \in at THEN [name |-> cat, count |-> entries[i].count + 1]
                    ELSE entries[i]])

\* insertion of e into a list sorted by descending count, after its equals
RECURSIVE InsertByCount(_, _)
InsertByCount(sorted, e) ==
  IF sorted = <<>> THEN <<e>>
  ELSE IF Head(sorted).count >= e.count
       THEN <<Head(sorted)>> \o InsertByCount(Tail(sorted), e)
  ELSE <<e>> \o sorted

RECURSIVE SortByCount(_)
\* the stable sort((a, b) => b.count - a.count)
SortByCount(entries) ==
  IF entries = <<>> THEN <<>>
  ELSE InsertByCount(SortByCount(SubSeq(entries, 1, Len(entries) - 1)),
                     entries[Len(entries)])

\* variant: the categories are listed in insertion order, unsorted
TopThreatsUnsorted(pulses) ==
  LET sorted == CategoryEntries(pulses, <<>>)
      top == SubSeq(sorted, 1, IF Len(sorted) < 5 THEN Len(sorted) ELSE 5)
  IN [i \in 1..Len(top) |->
        [name |-> top[i].name, count |-> top[i].count,
         change |-> IF (i - 1) % 2 = 0 THEN 12 ELSE -8]]

\* lines 151-155
TopThreats(pulses) ==
  LET sorted == SortByCount(CategoryEntries(pulses, <<>>))
      top == SubSeq(sorted, 1, IF Len(sorted) < 5 THEN Len(sorted) ELSE 5)
  IN [i \in 1..Len(top) |->
        [name |-> top[i].name, count |-> top[i].count,
         change |-> IF (i - 1) % 2 = 0 THEN 12 ELSE -8]]

\* lines 114-188; averageResponseTime is in tenths of a minute
RealOverview(recent, att, z, t, n) ==
  [metrics |->
     [totalIncidents |-> IF IndicatorsTotal(recent) # 0
                         THEN IndicatorsTotal(recent) ELSE Len(recent),
      averageResponseTime |-> 35 + (Len(recent) % 10),
      resolutionRate |-> IF 70 + (Len(recent) % 25) < 95
                         THEN 70 + (Len(recent) % 25) ELSE 95,
      criticalThreats |-> SeverityCount(recent, "critical")],
   threatTrends |-> TrendArray(TrendMap(recent, EmptyMap, t), z, t, n),
   topThreats |-> TopThreats(recent),
   riskDistribution |->
     [critical |-> SeverityCount(recent, "critical"),
      high |-> SeverityCount(recent, "high"),
      medium |-> SeverityCount(recent, "medium"),
      low |-> SeverityCount(recent, "low")],
   raw |-> [pulses |-> Len(recent), indicators |-> IndicatorsTotal(recent),
            attempts |-> att, usingFallback |-> FALSE]]

(***************************************************************************)
(* generateFallbackData.  Math.random() is r / 100 for a draw r in 0..99;  *)
(* the draws of one call are a stream, indexed in the order they are made. *)
(***************************************************************************)
RandomStreams == {"zero", "top", "mid", "even", "odd"}

Random(stream, i) ==
  CASE stream = "zero" -> 0
    [] stream = "top" -> 99
    [] stream = "mid" -> 50
    [] stream = "even" -> IF i % 2 = 0 THEN 99 ELSE 0
    [] stream = "odd" -> IF i % 2 = 0 THEN 0 ELSE 99

\* Math.floor(Math.random() * 40) + 20
BaseThreats(r) == (r * 40) \div 100 + 20

\* variant: the resolution factor is 0.6 + Math.random() * 0.6
FallbackResolvedWide(base, r) == (base * (600 + 6 * r)) \div 1000

\* Math.floor(baseThreats * (0.6 + Math.random() * 0.3))
FallbackResolved(base, r) == (base * (600 + 3 * r)) \div 1000

\* lines 196-207: draws 2j-1 and 2j belong to the j-th entry
FallbackTrends(z, t, n, stream) ==
  [j \in 1..n |->
     [date |-> toDateOnly(SetDateBack(z, t, n - j)),
      threats |-> BaseThreats(Random(stream, 2 * j - 1)),
      resolved |-> FallbackResolved(BaseThreats(Random(stream, 2 * j - 1)),
                                    Random(stream, 2 * j))]]

categories ==
  <<"Phishing Attempts", "Malware Detections", "Unauthorized Access",
    "Data Exfiltration", "DDoS Attacks">>

\* lines 210-214, first being the number of draws made before
FallbackTopThreats(stream, first) ==
  [i \in 1..5 |->
     [name |-> categories[i],
      count |-> (Random(stream, first + 2 * i - 1) * 200) \div 100 + 50
                  + (100 - (i - 1) * 20),
      change |-> (Random(stream, first + 2 * i) * 30) \div 100 - 15]]

\* lines 217-222
FallbackRiskDistribution(stream, first) ==
  [critical |-> (Random(stream, first + 1) * 25) \div 100 + 5,
   high |-> (Random(stream, first + 2) * 80) \div 100 + 40,
   medium |-> (Random(stream, first + 3) * 150) \div 100 + 100,
   low |-> (Random(stream, first + 4) * 100) \div 100 + 50]

generateFallbackData(z, t, n, stream) ==
  LET risk == FallbackRiskDistribution(stream, 2 * n + 10)
  IN [metrics |->
        [totalIncidents |-> risk.critical + risk.high + risk.medium + risk.low,
         averageResponseTime |-> (250 + 3 * Random(stream, 2 * n + 15) + 5) \div 10,
         resolutionRate |-> 75 + (Random(stream, 2 * n + 16) * 20) \div 100,
         criticalThreats |-> risk.critical],
      threatTrends |-> FallbackTrends(z, t, n, stream),
      topThreats |-> FallbackTopThreats(stream, 2 * n),
      riskDistribution |-> risk]

\* lines 94-112
FallbackOverview(att, z, t, n, stream) ==
  [metrics |-> generateFallbackData(z, t, n, stream).metrics,
   threatTrends |-> generateFallbackData(z, t, n, stream).threatTrends,
   topThreats |-> generateFallbackData(z, t, n, stream).topThreats,
   riskDistribution |-> generateFallbackData(z, t, n, stream).riskDistribution,
   raw |-> [pulses |-> 0, indicators |-> 0, attempts |-> att,
            usingFallback |-> TRUE]]

\* recent.length > 0
hasRealData(recent) == Len(recent) > 0

\* variant: hasRealData looks at the unfiltered pulses
getOverviewUnfiltered(pulses, att, z, t, n, stream) ==
  IF hasRealData(pulses)
  THEN RealOverview(Filter(pulses, daysAgoISO(z, t, n)), att, z, t, n)
  ELSE FallbackOverview(att, z, t, n, stream)

\* lines 82-188: what getOverview returns once fetchPulses has returned
getOverview(pulses, att, z, t, n, stream) ==
  IF hasRealData(Filter(pulses, daysAgoISO(z, t, n)))
  THEN RealOverview(Filter(pulses, daysAgoISO(z, t, n)), att, z, t, n)
  ELSE FallbackOverview(att, z, t, n, stream)

(***************************************************************************)
(* getOverview as a process: one step per awaited endpoint request         *)
(***************************************************************************)
NoOverview == [none |-> TRUE]

(***************************************************************************)
(* backend/services/nlpService.js: the security text analyzer              *)
(*                                                                         *)
(* A text is a sequence of words separated by single spaces; "." is a word *)
(* of its own and <<>> is the empty string.  Every word is longer than two *)
(* characters and, but for WordParts, contains no keyword as a proper part.*)
(***************************************************************************)
\* words of the short texts
Vocabulary == {"attack", "Breach", "hacked", "urgent", "data", "leak", "the"}

\* longer texts
Alerts ==
  { <<"URGENT", "malware", "attack", ".", "exploit", "hack", "Breach",
      "attack", "attack", "critical", "emergency">>,
    <<"call", "5551234567", ".", "the", "insider", "data", "leak", ".",
      "update", "the", "patch">>,
    <<"critical", "virus", "exploit", "cve", "trojan", "attack", "hack">> }

Texts == UNION {[1..n -> Vocabulary] : n \in 0..MaxWords} \cup Alerts

\* an argument of the analyzer: a string, null, or a number
StringInput(words) == [type |-> "string", words |-> words]

NlpInputs ==
  {StringInput(t) : t \in Texts}
    \cup {[type |-> "null", words |-> <<>>], [type |-> "number", words |-> <<>>]}

\* text.toLowerCase()
textToLowerCase(words) ==
  [i \in 1..Len(words) |->
    CASE words[i] = "Breach" -> "breach"
      [] words[i] = "URGENT" -> "urgent"
      [] OTHER -> words[i]]

\* the keyword words that occur in a lowercase word as a substring
WordParts(w) == IF w = "hacked" THEN {"hacked", "hack"} ELSE {w}

\* textLower.includes(keyword), the keyword given as its sequence of words
textIncludes(words, keyword) ==
  IF Len(keyword) = 1
    THEN \E i \in 1..Len(words) : keyword[1] \in WordParts(words[i])
    ELSE \E i \in 1..(Len(words) - Len(keyword) + 1) :
           \A j \in 1..Len(keyword) : words[i + j - 1] = keyword[j]

\* tokenize without the removal of the empty pieces of the split
tokenizeKeepsEmpty(words) ==
  IF words = <<>> THEN <<"">> ELSE SelectSeq(words, LAMBDA w : w # ".")

\* this.tokenizer.tokenize(lowercase text): the maximal runs of word characters
tokenize(words) == SelectSeq(words, LAMBDA w : w # ".")

\* this.sentiment.analyze(text): the sum of the valences its word list gives
\* the tokens, and the number of tokens (the empty text has the one token "")
sentimentAnalyze(words) ==
  LET tokens == SelectSeq(textToLowerCase(words), LAMBDA w : w # ".")
      afinn(w) ==
        CASE w \in {"attack", "hacked", "urgent", "leak"} -> -1
          [] w \in {"critical", "emergency", "exploit"} -> -2
          [] OTHER -> 0
      RECURSIVE SumValence(_)
      SumValence(ts) ==
        IF ts = <<>> THEN 0 ELSE afinn(Head(ts)) + SumValence(Tail(ts))
  IN [score |-> SumValence(tokens),
      tokens |-> IF tokens = <<>> THEN 1 ELSE Len(tokens)]

\* this.securityKeywords, in order
securityKeywords ==
  << <<"breach">>, <<"hack">>, <<"attack">>, <<"vulnerability">>,
     <<"exploit">>, <<"malware">>, <<"phishing">>, <<"ransomware">>,
     <<"ddos">>, <<"intrusion">>, <<"compromise">>, <<"data", "leak">>,
     <<"unauthorized", "access">>, <<"security", "incident">>, <<"threat">>,
     <<"risk">>, <<"alert">>, <<"suspicious">>, <<"anomaly">> >>

\* calculateThreatScore without the Math.min of line 153
calculateThreatScoreUncapped(words, sentiment, keywords) ==
  LET urgencyWords == {"urgent", "critical", "immediate", "emergency", "asap"}
      threatWords == {"attack", "breach", "hack", "exploit", "malware"}
      urgencyCount == Len(SelectSeq(words, LAMBDA w : w \in urgencyWords))
      threatCount == Len(SelectSeq(words, LAMBDA w : w \in threatWords))
  IN (IF sentiment.score < 0 THEN -sentiment.score ELSE sentiment.score) * 2
       + Len(keywords) * 5 + urgencyCount * 8 + threatCount * 10

calculateThreatScore(words, sentiment, keywords) ==
  LET urgencyWords == {"urgent", "critical", "immediate", "emergency", "asap"}
      threatWords == {"attack", "breach", "hack", "exploit", "malware"}
      urgencyCount == Len(SelectSeq(words, LAMBDA w : w \in urgencyWords))
      threatCount == Len(SelectSeq(words, LAMBDA w : w \in threatWords))
      score == (IF sentiment.score < 0 THEN -sentiment.score ELSE sentiment.score) * 2
                 + Len(keywords) * 5 + urgencyCount * 8 + threatCount * 10
  IN IF score < 100 THEN score ELSE 100

determineThreatLevel(score) ==
  IF score >= 80 THEN "critical"
  ELSE IF score >= 60 THEN "high"
  ELSE IF score >= 30 THEN "medium"
  ELSE "low"

\* calculateConfidence, in hundredths; |comparative| > 0.1 is
\* 10 * |score| > number of tokens
calculateConfidence(keywords, sentiment) ==
  LET magnitude == IF sentiment.score < 0 THEN -sentiment.score ELSE sentiment.score
      byKeywords == IF Len(keywords) * 10 < 30 THEN Len(keywords) * 10 ELSE 30
      bySentiment == IF 10 * magnitude > sentiment.tokens THEN 20 ELSE 0
  IN IF Len(keywords) > 0 THEN 50 + byKeywords + bySentiment
     ELSE 50 + bySentiment

\* extractEntities: the only word of the texts that a pattern of lines 92-95
\* or one of compromise's taggers matches is the telephone number
extractEntities(words) ==
  [organizations |-> <<>>,
   dates |-> <<>>,
   numbers |-> SelectSeq(words, LAMBDA w : w = "5551234567"),
   emails |-> <<>>,
   urls |-> <<>>,
   ipAddresses |-> <<>>,
   phoneNumbers |-> SelectSeq(words, LAMBDA w : w = "5551234567")]

\* extractKeyPhrases: the stop words dropped, the words counted in their
\* order of appearance, the stable sort by descending frequency, the first 10
extractKeyPhrases(words) ==
  LET stopWords == {"the"}
      filteredWords == SelectSeq(tokenize(textToLowerCase(words)),
                                 LAMBDA w : w \notin stopWords)
      RECURSIVE WordFreq(_, _)
      WordFreq(ws, entries) ==
        IF ws = <<>> THEN entries
        ELSE WordFreq(Tail(ws),
               IF \E i \in 1..Len(entries) : entries[i].word = Head(ws)
                 THEN [i \in 1..Len(entries) |->
                        IF entries[i].word = Head(ws)
                          THEN [entries[i] EXCEPT !.frequency = @ + 1]
                          ELSE entries[i]]
                 ELSE Append(entries, [word |-> Head(ws), frequency |-> 1]))
      RECURSIVE Insert(_, _)
      Insert(sorted, e) ==
        IF sorted = <<>> THEN <<e>>
        ELSE IF Head(sorted).frequency >= e.frequency
             THEN <<Head(sorted)>> \o Insert(Tail(sorted), e)
        ELSE <<e>> \o sorted
      RECURSIVE Sort(_)
      Sort(entries) ==
        IF entries = <<>> THEN <<>>
        ELSE Insert(Sort(SubSeq(entries, 1, Len(entries) - 1)),
                    entries[Len(entries)])
      sorted == Sort(WordFreq(filteredWords, <<>>))
  IN SubSeq(sorted, 1, IF Len(sorted) < 10 THEN Len(sorted) ELSE 10)

NlpReturned(v) == [thrown |-> FALSE, value |-> v]

\* the Error a service function ends with
NlpThrown(message) == [thrown |-> TRUE, value |-> [message |-> message]]

\* analyzeSecurityText: text.toLowerCase() of line 30 throws a TypeError when
\* text is no string, which the catch of line 74 replaces by its own Error
analyzeSecurityText(input) ==
  IF input.type # "string"
    THEN NlpThrown("Failed to analyze security text")
    ELSE LET text == input.words
             words == tokenize(textToLowerCase(text))
             sentimentResult == sentimentAnalyze(text)
             foundKeywords ==
               SelectSeq(securityKeywords,
                 LAMBDA keyword : textIncludes(textToLowerCase(text), keyword))
             threatScore == calculateThreatScore(words, sentimentResult, foundKeywords)
         IN NlpReturned(
              [sentiment |-> [score |-> sentimentResult.score],
               security |-> [keywords |-> foundKeywords,
                             threatScore |-> threatScore,
                             threatLevel |-> determineThreatLevel(threatScore),
                             confidence |-> calculateConfidence(foundKeywords,
                                                                sentimentResult)],
               entities |-> extractEntities(text),
               keyPhrases |-> extractKeyPhrases(text),
               metadata |-> [wordCount |-> Len(words)]])

\* the categories object of lines 196-203, in key order
classifyCategories ==
  << [category |-> "breach",
      keywords |-> << <<"breach">>, <<"data", "leak">>,
                      <<"unauthorized", "access">>, <<"compromise">> >>],
     [category |-> "malware",
      keywords |-> << <<"malware">>, <<"virus">>, <<"trojan">>,
                      <<"ransomware">>, <<"botnet">> >>],
     [category |-> "phishing",
      keywords |-> << <<"phishing">>, <<"spoofing">>,
                      <<"social", "engineering">>, <<"fake">> >>],
     [category |-> "ddos",
      keywords |-> << <<"ddos">>, <<"denial", "of", "service">>, <<"flood">>,
                      <<"overload">> >>],
     [category |-> "vulnerability",
      keywords |-> << <<"vulnerability">>, <<"exploit">>, <<"cve">>,
                      <<"patch">>, <<"update">> >>],
     [category |-> "insider",
      keywords |-> << <<"insider">>, <<"employee">>, <<"internal">>,
                      <<"privilege", "abuse">> >>] >>

\* classifySecurityText: text.toLowerCase() of line 206 is outside any try;
\* the reduce of lines 214-216 keeps a only when it is strictly greater;
\* confidence is kept in sixths
classifySecurityText(input) ==
  IF input.type # "string"
    THEN NlpThrown("TypeError")
    ELSE LET textLower == textToLowerCase(input.words)
             scores ==
               [i \in 1..Len(classifyCategories) |->
                 [category |-> classifyCategories[i].category,
                  score |-> Len(SelectSeq(classifyCategories[i].keywords,
                              LAMBDA keyword : textIncludes(textLower, keyword)))]]
             RECURSIVE Reduce(_, _)
             Reduce(a, rest) ==
               IF rest = <<>> THEN a
               ELSE Reduce(IF a.score > Head(rest).score THEN a ELSE Head(rest),
                           Tail(rest))
             topCategory == Reduce(Head(scores), Tail(scores))
         IN NlpReturned(
              [primaryCategory |-> IF topCategory.score > 0
                                     THEN topCategory.category ELSE "general",
               scores |-> scores,
               confidence |-> topCategory.score])

\* detectLanguage: englishWordCount / words.length > 0.1 (0 / 0 is NaN)
detectLanguage(words) ==
  LET englishWords == {"the", "and", "or", "but", "in", "on", "at", "to", "for", "of"}
      tokens == tokenize(textToLowerCase(words))
      englishWordCount == Len(SelectSeq(tokens, LAMBDA w : w \in englishWords))
  IN IF 10 * englishWordCount > Len(tokens) THEN "en" ELSE "unknown"

\* generateSummary; sentences are the non-empty pieces of text.split(/[.!?]+/)
generateSummary(words) ==
  LET RECURSIVE Sentences(_, _)
      Sentences(ws, cur) ==
        IF ws = <<>> THEN (IF cur = <<>> THEN <<>> ELSE <<cur>>)
        ELSE IF Head(ws) = "."
             THEN (IF cur = <<>> THEN <<>> ELSE <<cur>>) \o Sentences(Tail(ws), <<>>)
        ELSE Sentences(Tail(ws), Append(cur, Head(ws)))
      sentences == Sentences(words, <<>>)
      importantSentences ==
        SelectSeq(sentences,
          LAMBDA s : \E k \in 1..Len(securityKeywords) :
                       textIncludes(textToLowerCase(s), securityKeywords[k]))
  IN IF Len(sentences) <= 2 THEN words
     ELSE IF Len(importantSentences) > 1
          THEN importantSentences[1] \o <<".">> \o importantSentences[2] \o <<".">>
     ELSE IF Len(importantSentences) = 1 THEN importantSentences[1] \o <<".">>
     ELSE sentences[1] \o <<".">>

(***************************************************************************)
(* POST /api/nlp/batch-analyze                                             *)
(***************************************************************************)
\* the values batchAnalysisSchema accepts for analysis_type
NlpAnalysisTypes == {"security", "sentiment", "entities", "classification", "summary"}

\* request bodies that passed authenticate and authorize: texts may be
\* missing, analysis_type may be missing ("absent") or none of the valid ones
BatchBodies ==
  [hasTexts : BOOLEAN,
   texts : UNION {[1..n -> {<<>>, <<"attack">>} \cup Alerts] : n \in 0..MaxTexts},
   analysis_type : NlpAnalysisTypes \cup {"absent", "deep"}]

\* batchAnalysisSchema.validate(req.body) reports an error; Joi.string()
\* does not accept the empty string
batchAnalysisSchemaError(body) ==
  \/ ~body.hasTexts
  \/ Len(body.texts) < 1
  \/ Len(body.texts) > BatchLimit
  \/ \E i \in 1..Len(body.texts) : body.texts[i] = <<>>
  \/ body.analysis_type \notin NlpAnalysisTypes \cup {"absent"}

\* the switch of lines 112-139
Analysis(text, analysis_type) ==
  CASE analysis_type = "security" -> analyzeSecurityText(StringInput(text))
    [] analysis_type = "sentiment" ->
         NlpReturned([sentiment |-> sentimentAnalyze(text),
                      language |-> detectLanguage(text)])
    [] analysis_type = "entities" ->
         NlpReturned([entities |-> extractEntities(text),
                      keyPhrases |-> extractKeyPhrases(text)])
    [] analysis_type = "classification" -> classifySecurityText(StringInput(text))
    [] analysis_type = "summary" ->
         NlpReturned([summary |-> generateSummary(text),
                      keyPhrases |-> extractKeyPhrases(text)])
    [] OTHER -> analyzeSecurityText(StringInput(text))

\* the handler with the callback's try of line 109 taken away: the first
\* failure reaches the catch of line 181
batchAnalyzeAborts(body, faults) ==
  IF batchAnalysisSchemaError(body)
    THEN [status |-> 400, success |-> FALSE, results |-> <<>>,
          summary |-> [total |-> 0, successful |-> 0, failed |-> 0]]
  ELSE IF faults # {}
    THEN [status |-> 500, success |-> FALSE, results |-> <<>>,
          summary |-> [total |-> 0, successful |-> 0, failed |-> 0]]
  ELSE LET analysis_type == IF body.analysis_type = "absent"
                              THEN "security" ELSE body.analysis_type
           items ==
             [i \in 1..Len(body.texts) |->
               [index |-> i - 1, success |-> TRUE,
                analysis |-> Analysis(body.texts[i], analysis_type).value,
                metadata |-> [textLength |-> Len(body.texts[i])]]]
       IN [status |-> 200, success |-> TRUE, results |-> items,
           summary |-> [total |-> Len(body.texts), successful |-> Len(items),
                        failed |-> 0]]

\* the handler of lines 96-188: the response it sends.  faults: the positions
\* of the texts for which a call into a language library throws.  index
\* counts from 0; textLength is counted in words
batchAnalyze(body, faults) ==
  IF batchAnalysisSchemaError(body)
    THEN [status |-> 400, success |-> FALSE, results |-> <<>>,
          summary |-> [total |-> 0, successful |-> 0, failed |-> 0]]
    ELSE LET analysis_type == IF body.analysis_type = "absent"
                                THEN "security" ELSE body.analysis_type
             Outcome(i) == IF i \in faults THEN NlpThrown("library")
                           ELSE Analysis(body.texts[i], analysis_type)
             items ==
               [i \in 1..Len(body.texts) |->
                 IF Outcome(i).thrown
                   THEN [index |-> i - 1, success |-> FALSE,
                         error |-> "Failed to analyze text",
                         metadata |-> [textLength |-> Len(body.texts[i])]]
                   ELSE [index |-> i - 1, success |-> TRUE,
                         analysis |-> Outcome(i).value,
                         metadata |-> [textLength |-> Len(body.texts[i])]]]
             successCount == Len(SelectSeq(items, LAMBDA r : r.success))
             failureCount == Len(items) - successCount
         IN [status |-> 200, success |-> TRUE, results |-> items,
             summary |-> [total |-> Len(body.texts),
                          successful |-> successCount,
                          failed |-> failureCount]]

NoResponse == [status |-> 0]

(***************************************************************************)
(* backend/routes/breach-lookup.js: POST /api/breach-lookup/check          *)
(*                                                                         *)
(* Scores are kept in halves until they are rounded.                       *)
(***************************************************************************)
\* the entries of sensitiveTypes that a data class includes once lowercased
SensitiveParts(d) ==
  CASE d = "Passwords" -> {"passwords"}
    [] d = "Credit cards" -> {"credit cards"}
    [] d = "Social security numbers" -> {"social security"}
    [] OTHER -> {}

\* a breach as the checker script prints it; breachDate in days
RawBreach(sensitive, verified, count, classes, date) ==
  [isSensitive |-> sensitive, isVerified |-> verified, pwnCount |-> count,
   dataClasses |-> classes, breachDate |-> date]

RawBreachCatalog ==
  { RawBreach(FALSE, FALSE, 1000000, <<"Email addresses">>, 1),
    RawBreach(FALSE, TRUE, 1000001, <<"Email addresses", "Passwords">>, 2),
    RawBreach(TRUE, TRUE, 100000001, <<"Credit cards">>, 3),
    RawBreach(FALSE, FALSE, 10000001, <<"Partial credit card data">>, 2),
    RawBreach(TRUE, FALSE, 100000000, <<"Social security numbers">>, 4) }

\* what the forEach of lines 248-263 adds for one breach, in halves
BreachWeight(breach) ==
  (IF breach.IsSensitive THEN 4 ELSE 0)
  + (IF breach.IsVerified THEN 2 ELSE 0)
  + (IF breach.PwnCount > 100000000 THEN 6
     ELSE IF breach.PwnCount > 10000000 THEN 4
     ELSE IF breach.PwnCount > 1000000 THEN 2
     ELSE 0)
  + (IF \E i \in 1..Len(breach.DataClasses) :
          SensitiveParts(breach.DataClasses[i])
            \cap {"passwords", "credit cards", "financial", "social security"} # {}
       THEN 4 ELSE 0)

\* calculateRiskScore without the Math.min of line 265
calculateRiskScoreUncapped(breaches, pastes) ==
  LET RECURSIVE Sum(_)
      Sum(bs) == IF bs = <<>> THEN 0 ELSE BreachWeight(Head(bs)) + Sum(Tail(bs))
      halves == Len(breaches) * 3 + Len(pastes) + Sum(breaches)
  IN (halves + 1) \div 2

\* calculateRiskScore; Math.round of a number of halves is (halves + 1) div 2
calculateRiskScore(breaches, pastes) ==
  LET RECURSIVE Sum(_)
      Sum(bs) == IF bs = <<>> THEN 0 ELSE BreachWeight(Head(bs)) + Sum(Tail(bs))
      halves == Len(breaches) * 3 + Len(pastes) + Sum(breaches)
      score == (halves + 1) \div 2
  IN IF score < 10 THEN score ELSE 10

\* getRiskLevel with the two upper tiers exchanged
getRiskLevelExchanged(score) ==
  IF score >= 8 THEN "high"
  ELSE IF score >= 6 THEN "critical"
  ELSE IF score >= 4 THEN "medium"
  ELSE "low"

getRiskLevel(score) ==
  IF score >= 8 THEN "critical"
  ELSE IF score >= 6 THEN "high"
  ELSE IF score >= 4 THEN "medium"
  ELSE "low"

\* lastBreach: null
NoDate == -1

\* what the checker script leaves on its standard output, and its exit code
CheckerOutput(code, json, success, status, breaches, pastes) ==
  [code |-> code, json |-> json, success |-> success, status |-> status,
   breaches |-> breaches, pastes |-> pastes]

\* a result with breaches and pastes, a refusal with or without a status,
\* no JSON at all, a failed run
CheckerOutputs ==
  {CheckerOutput(0, TRUE, TRUE, 200, b, [i \in 1..n |-> [id |-> i]]) :
     b \in UNION {[1..k -> RawBreachCatalog] : k \in 0..MaxBreaches},
     n \in 0..MaxPastes}
  \cup {CheckerOutput(0, TRUE, FALSE, 429, <<>>, <<>>),
        CheckerOutput(0, TRUE, FALSE, 0, <<>>, <<>>),
        CheckerOutput(0, FALSE, FALSE, 0, <<>>, <<>>),
        CheckerOutput(1, FALSE, FALSE, 0, <<>>, <<>>)}

\* request bodies: the email passes lookupSchema or not; includePastes
CheckBodies == [emailValid : BOOLEAN, includePastes : BOOLEAN]

\* the summary of a response that has none
NoRisk == [riskScore |-> -1, severity |-> "none", totalAccounts |-> 0,
           lastBreach |-> NoDate, breaches |-> <<>>, pastes |-> <<>>]

\* res.status(status).json(...)
CheckResponse(status, success, summary) ==
  [status |-> status, success |-> success, summary |-> summary]

\* the 'close' listener of lines 56-134: the response it hands to res
closeResponse(body, out) ==
  IF out.code # 0 THEN CheckResponse(500, FALSE, NoRisk)
  ELSE IF ~out.json THEN CheckResponse(502, FALSE, NoRisk)
  ELSE IF ~out.success
    THEN CheckResponse(IF out.status # 0 THEN out.status ELSE 502, FALSE, NoRisk)
  ELSE LET breaches ==
             [i \in 1..Len(out.breaches) |->
               [PwnCount |-> out.breaches[i].pwnCount,
                DataClasses |-> out.breaches[i].dataClasses,
                IsVerified |-> out.breaches[i].isVerified,
                IsSensitive |-> out.breaches[i].isSensitive,
                BreachDate |-> out.breaches[i].breachDate]]
           pastes == [i \in 1..Len(out.pastes) |-> [Id |-> out.pastes[i].id]]
           RECURSIVE SumPwnCount(_)
           SumPwnCount(bs) ==
             IF bs = <<>> THEN 0 ELSE Head(bs).PwnCount + SumPwnCount(Tail(bs))
           riskScore == calculateRiskScore(breaches, pastes)
           latest == CHOOSE i \in 1..Len(breaches) :
                       \A j \in 1..Len(breaches) :
                         breaches[j].BreachDate <= breaches[i].BreachDate
       IN CheckResponse(IF out.status # 0 THEN out.status ELSE 200, TRUE,
            [riskScore |-> riskScore,
             severity |-> getRiskLevel(riskScore),
             totalAccounts |-> SumPwnCount(breaches),
             lastBreach |-> IF breaches = <<>> THEN NoDate
                            ELSE breaches[latest].BreachDate,
             breaches |-> breaches,
             pastes |-> IF body.includePastes THEN pastes ELSE <<>>])

\* the arguments of tagCategory and severityFromPulse: an indicator count on
\* either side of each bucket edge, and every short list of tags
PulseInputs ==
  [indicators : {NotArray, 0, 6, 7, 14, 15, 29, 30},
   tags : UNION {[1..n -> DOMAIN TagLower] : n \in 0..MaxTags}]

NoDerived == [severity |-> "none", category |-> "none"]

NoOutcome == [thrown |-> FALSE, value |-> [none |-> TRUE]]

(***************************************************************************)
(* Scan reports: routes/reports.js and the ScanReport model.  One report   *)
(* id is followed; times are milliseconds.                                 *)
(***************************************************************************)
FindingSeverities == {"info", "low", "medium", "high", "critical"}

ReportStatuses == {"pending", "running", "completed", "failed", "cancelled"}

\* findings arrays of request bodies, each finding being its severity
FindingLists ==
  { <<>>,
    <<"info">>,
    <<"low", "info">>,
    <<"info", "medium", "low">>,
    <<"high", "critical">>,
    <<"critical", "high">>,
    <<"medium", "high", "medium">> }

severityOrder ==
  [s \in FindingSeverities |->
     CASE s = "critical" -> 5
       [] s = "high" -> 4
       [] s = "medium" -> 3
       [] s = "low" -> 2
       [] s = "info" -> 1]

RECURSIVE Reduce(_, _)
\* findings.reduce(callback, highest) with the callback of line 558
Reduce(findings, highest) ==
  IF findings = <<>> THEN highest
  ELSE Reduce(Tail(findings),
              IF severityOrder[Head(findings)] > severityOrder[highest]
              THEN Head(findings) ELSE highest)

getHighestSeverity(findings) == Reduce(findings, "info")

\* the properties of this inside the route handlers: they are arrow
\* functions of the module scope, whose this is the initial exports object;
\* reports.js puts nothing on it (line 631 replaces module.exports)
ThisProperties == {}

\* this.getHighestSeverity(findings): calling a missing property is a TypeError
thisGetHighestSeverity(findings) ==
  IF "getHighestSeverity" \in ThisProperties
  THEN Returned(getHighestSeverity(findings))
  ELSE Thrown

\* what aiService.analyzeThreat may return for the data of line 194
AnalyzeThreatResults(severity) ==
  {fallbackAnalysis([severity |-> severity], "threatAnalysis")}
    \cup {parseAIResponse(c, "threatAnalysis") : c \in Contents}

\* lines 194-204: the argument is evaluated, then the analysis runs
AnalysisOutcomes(findings) ==
  IF thisGetHighestSeverity(findings).status = "throw" THEN {Thrown}
  ELSE {Returned(v) : v \in AnalyzeThreatResults(thisGetHighestSeverity(findings).value)}

calculateSummary(findings) ==
  LET Count(s) == Cardinality({i \in 1..Len(findings) : findings[i] = s})
  IN [total_findings |-> Len(findings),
      critical_count |-> Count("critical"),
      high_count |-> Count("high"),
      medium_count |-> Count("medium"),
      low_count |-> Count("low"),
      info_count |-> Count("info")]

NoAnalysis ==
  [present |-> FALSE, overall_risk |-> "none", risk_score |-> 0,
   reasoning |-> <<>>, recommendations |-> <<>>]

\* lines 206-218
AiAnalysis(aiAnalysis) ==
  [present |-> TRUE,
   overall_risk |-> aiAnalysis.threatLevel,
   risk_score |-> aiAnalysis.riskScore,
   reasoning |-> aiAnalysis.rawResponse,
   recommendations |->
     [i \in 1..Len(aiAnalysis.recommendations) |->
        [category |-> "general", recommendation |-> aiAnalysis.recommendations[i],
         impact |-> "medium", effort |-> "medium"]]]

\* the stored document; exists is FALSE when the collection has none
NoReport ==
  [exists |-> FALSE, status |-> "none", start_time |-> NoDate, end_time |-> NoDate,
   duration |-> 0, updated_at |-> NoDate, findings |-> <<>>,
   summary |-> calculateSummary(<<>>), ai_analysis |-> NoAnalysis]

\* new ScanReport(reportData) of lines 175-182, schema defaults filled in
NewReport(findings, t) ==
  [exists |-> TRUE, status |-> "pending", start_time |-> t, end_time |-> NoDate,
   duration |-> 0, updated_at |-> t, findings |-> findings,
   summary |-> calculateSummary(<<>>), ai_analysis |-> NoAnalysis]

\* scanReportSchema.pre('save') at time t
preSave(doc, t) ==
  [doc EXCEPT !.updated_at = t,
              !.duration = IF doc.end_time # NoDate /\ doc.start_time # NoDate
                           THEN (doc.end_time - doc.start_time) \div 1000 ELSE @]

\* req.body of POST /api/reports: valid is the verdict of scanReportSchema
ReportBodies ==
  {[valid |-> FALSE, hasFindings |-> FALSE, findings |-> <<>>]}
    \cup {[valid |-> TRUE, hasFindings |-> FALSE, findings |-> <<>>]}
    \cup {[valid |-> TRUE, hasFindings |-> TRUE, findings |-> f] : f \in FindingLists}

\* req.body of PUT /api/reports/:id: valid is the verdict of updateReportSchema
UpdateBodies ==
  {[valid |-> FALSE, status |-> "absent", hasFindings |-> FALSE, findings |-> <<>>]}
    \cup {[valid |-> TRUE, status |-> s, hasFindings |-> FALSE, findings |-> <<>>] :
            s \in ReportStatuses \cup {"absent"}}
    \cup {[valid |-> TRUE, status |-> s, hasFindings |-> TRUE, findings |-> f] :
            s \in ReportStatuses \cup {"absent"}, f \in FindingLists}

\* Object.assign(report, value)
ObjectAssign(doc, value) ==
  [doc EXCEPT !.status = IF value.status # "absent" THEN value.status ELSE @,
              !.findings = IF value.hasFindings THEN value.findings ELSE @]

\* a response of a route, with the status and end_time the document had
\* when the handler loaded it
ReportReply(route, status, doc) ==
  [route |-> route, status |-> status,
   foundStatus |-> doc.status, foundEndTime |-> doc.end_time]

NoReply == ReportReply("none", 0, NoReport)

(***************************************************************************)
(* Initial states: one component takes requests, the others are idle       *)
(***************************************************************************)
\* the threat assessment engine before a call; the aggregator is idle
InitAI ==
  /\ apiKey \in BOOLEAN
  /\ threatData \in ThreatInputs
  /\ analysisType \in AnalysisTypes
  /\ aiPc = "idle"
  /\ providerCalls = 0
  /\ verdict = NoVerdict
  /\ zone = [before |-> 0, after |-> 0]
  /\ now = 6 * 24
  /\ otxPc = "idle"
  /\ days = 1
  /\ candidate = 1
  /\ requests = <<>>
  /\ served = <<>>
  /\ attempts = <<>>
  /\ results = <<>>
  /\ overview = NoOverview
  /\ nlpInput = StringInput(<<>>)
  /\ nlpFunction = "analyzeSecurityText"
  /\ nlpOutcome = NoOutcome
  /\ batchBody = [hasTexts |-> FALSE, texts |-> <<>>, analysis_type |-> "absent"]
  /\ batchFaults = {}
  /\ batchResponse = NoResponse
  /\ checkBody = [emailValid |-> FALSE, includePastes |-> TRUE]
  /\ checkerOut = CheckerOutput(0, FALSE, FALSE, 0, <<>>, <<>>)
  /\ checker = "none"
  /\ elapsed = 0
  /\ timer = "unset"
  /\ sent = <<>>
  /\ serverUp = TRUE
  /\ jsonCalls = 0
  /\ pulse = [indicators |-> NotArray, tags |-> <<>>]
  /\ derived = NoDerived
  /\ report = NoReport
  /\ reportReply = NoReply
  /\ reportClock = 0

\* the aggregator before a call, on any host; the engine is idle
InitOTX ==
  /\ \E host \in HostClocks : zone = host[1] /\ now = host[2]
  /\ otxPc = "idle"
  /\ days = 1
  /\ candidate = 1
  /\ requests = <<>>
  /\ served = <<>>
  /\ attempts = <<>>
  /\ results = <<>>
  /\ overview = NoOverview
  /\ apiKey = FALSE
  /\ threatData = [severity |-> "absent"]
  /\ analysisType = "threatAnalysis"
  /\ aiPc = "idle"
  /\ providerCalls = 0
  /\ verdict = NoVerdict
  /\ nlpInput = StringInput(<<>>)
  /\ nlpFunction = "analyzeSecurityText"
  /\ nlpOutcome = NoOutcome
  /\ batchBody = [hasTexts |-> FALSE, texts |-> <<>>, analysis_type |-> "absent"]
  /\ batchFaults = {}
  /\ batchResponse = NoResponse
  /\ checkBody = [emailValid |-> FALSE, includePastes |-> TRUE]
  /\ checkerOut = CheckerOutput(0, FALSE, FALSE, 0, <<>>, <<>>)
  /\ checker = "none"
  /\ elapsed = 0
  /\ timer = "unset"
  /\ sent = <<>>
  /\ serverUp = TRUE
  /\ jsonCalls = 0
  /\ pulse = [indicators |-> NotArray, tags |-> <<>>]
  /\ derived = NoDerived
  /\ report = NoReport
  /\ reportReply = NoReply
  /\ reportClock = 0

\* the text analyzer before a call, with any argument
InitNLP ==
  /\ nlpInput \in NlpInputs
  /\ nlpFunction \in {"analyzeSecurityText", "classifySecurityText"}
  /\ nlpOutcome = NoOutcome
  /\ apiKey = FALSE
  /\ threatData = [severity |-> "absent"]
  /\ analysisType = "threatAnalysis"
  /\ aiPc = "idle"
  /\ providerCalls = 0
  /\ verdict = NoVerdict
  /\ zone = [before |-> 0, after |-> 0]
  /\ now = 6 * 24
  /\ otxPc = "idle"
  /\ days = 1
  /\ candidate = 1
  /\ requests = <<>>
  /\ served = <<>>
  /\ attempts = <<>>
  /\ results = <<>>
  /\ overview = NoOverview
  /\ batchBody = [hasTexts |-> FALSE, texts |-> <<>>, analysis_type |-> "absent"]
  /\ batchFaults = {}
  /\ batchResponse = NoResponse
  /\ checkBody = [emailValid |-> FALSE, includePastes |-> TRUE]
  /\ checkerOut = CheckerOutput(0, FALSE, FALSE, 0, <<>>, <<>>)
  /\ checker = "none"
  /\ elapsed = 0
  /\ timer = "unset"
  /\ sent = <<>>
  /\ serverUp = TRUE
  /\ jsonCalls = 0
  /\ pulse = [indicators |-> NotArray, tags |-> <<>>]
  /\ derived = NoDerived
  /\ report = NoReport
  /\ reportReply = NoReply
  /\ reportClock = 0

\* the batch handler before a request, with any body
InitBatch ==
  /\ batchBody \in BatchBodies
  /\ batchFaults = {}
  /\ batchResponse = NoResponse
  /\ apiKey = FALSE
  /\ threatData = [severity |-> "absent"]
  /\ analysisType = "threatAnalysis"
  /\ aiPc = "idle"
  /\ providerCalls = 0
  /\ verdict = NoVerdict
  /\ zone = [before |-> 0, after |-> 0]
  /\ now = 6 * 24
  /\ otxPc = "idle"
  /\ days = 1
  /\ candidate = 1
  /\ requests = <<>>
  /\ served = <<>>
  /\ attempts = <<>>
  /\ results = <<>>
  /\ overview = NoOverview
  /\ nlpInput = StringInput(<<>>)
  /\ nlpFunction = "analyzeSecurityText"
  /\ nlpOutcome = NoOutcome
  /\ checkBody = [emailValid |-> FALSE, includePastes |-> TRUE]
  /\ checkerOut = CheckerOutput(0, FALSE, FALSE, 0, <<>>, <<>>)
  /\ checker = "none"
  /\ elapsed = 0
  /\ timer = "unset"
  /\ sent = <<>>
  /\ serverUp = TRUE
  /\ jsonCalls = 0
  /\ pulse = [indicators |-> NotArray, tags |-> <<>>]
  /\ derived = NoDerived
  /\ report = NoReport
  /\ reportReply = NoReply
  /\ reportClock = 0

\* the breach lookup before a request, with any body and any checker
InitCheck ==
  /\ checkBody \in CheckBodies
  /\ checkerOut \in CheckerOutputs
  /\ checker = "none"
  /\ elapsed = 0
  /\ timer = "unset"
  /\ sent = <<>>
  /\ serverUp = TRUE
  /\ jsonCalls = 0
  /\ apiKey = FALSE
  /\ threatData = [severity |-> "absent"]
  /\ analysisType = "threatAnalysis"
  /\ aiPc = "idle"
  /\ providerCalls = 0
  /\ verdict = NoVerdict
  /\ zone = [before |-> 0, after |-> 0]
  /\ now = 6 * 24
  /\ otxPc = "idle"
  /\ days = 1
  /\ candidate = 1
  /\ requests = <<>>
  /\ served = <<>>
  /\ attempts = <<>>
  /\ results = <<>>
  /\ overview = NoOverview
  /\ nlpInput = StringInput(<<>>)
  /\ nlpFunction = "analyzeSecurityText"
  /\ nlpOutcome = NoOutcome
  /\ batchBody = [hasTexts |-> FALSE, texts |-> <<>>, analysis_type |-> "absent"]
  /\ batchFaults = {}
  /\ batchResponse = NoResponse
  /\ pulse = [indicators |-> NotArray, tags |-> <<>>]
  /\ derived = NoDerived
  /\ report = NoReport
  /\ reportReply = NoReply
  /\ reportClock = 0

\* the pulse functions before a call, with any pulse
InitPulse ==
  /\ pulse \in PulseInputs
  /\ derived = NoDerived
  /\ report = NoReport
  /\ reportReply = NoReply
  /\ reportClock = 0
  /\ apiKey = FALSE
  /\ threatData = [severity |-> "absent"]
  /\ analysisType = "threatAnalysis"
  /\ aiPc = "idle"
  /\ providerCalls = 0
  /\ verdict = NoVerdict
  /\ zone = [before |-> 0, after |-> 0]
  /\ now = 6 * 24
  /\ otxPc = "idle"
  /\ days = 1
  /\ candidate = 1
  /\ requests = <<>>
  /\ served = <<>>
  /\ attempts = <<>>
  /\ results = <<>>
  /\ overview = NoOverview
  /\ nlpInput = StringInput(<<>>)
  /\ nlpFunction = "analyzeSecurityText"
  /\ nlpOutcome = NoOutcome
  /\ batchBody = [hasTexts |-> FALSE, texts |-> <<>>, analysis_type |-> "absent"]
  /\ batchFaults = {}
  /\ batchResponse = NoResponse
  /\ checkBody = [emailValid |-> FALSE, includePastes |-> TRUE]
  /\ checkerOut = CheckerOutput(0, FALSE, FALSE, 0, <<>>, <<>>)
  /\ checker = "none"
  /\ elapsed = 0
  /\ timer = "unset"
  /\ sent = <<>>
  /\ serverUp = TRUE
  /\ jsonCalls = 0

\* the scan report routes before any request: the collection is empty
InitReports ==
  /\ pulse = [indicators |-> NotArray, tags |-> <<>>]
  /\ derived = NoDerived
  /\ report = NoReport
  /\ reportReply = NoReply
  /\ reportClock = 0
  /\ apiKey = FALSE
  /\ threatData = [severity |-> "absent"]
  /\ analysisType = "threatAnalysis"
  /\ aiPc = "idle"
  /\ providerCalls = 0
  /\ verdict = NoVerdict
  /\ zone = [before |-> 0, after |-> 0]
  /\ now = 6 * 24
  /\ otxPc = "idle"
  /\ days = 1
  /\ candidate = 1
  /\ requests = <<>>
  /\ served = <<>>
  /\ attempts = <<>>
  /\ results = <<>>
  /\ overview = NoOverview
  /\ nlpInput = StringInput(<<>>)
  /\ nlpFunction = "analyzeSecurityText"
  /\ nlpOutcome = NoOutcome
  /\ batchBody = [hasTexts |-> FALSE, texts |-> <<>>, analysis_type |-> "absent"]
  /\ batchFaults = {}
  /\ batchResponse = NoResponse
  /\ checkBody = [emailValid |-> FALSE, includePastes |-> TRUE]
  /\ checkerOut = CheckerOutput(0, FALSE, FALSE, 0, <<>>, <<>>)
  /\ checker = "none"
  /\ elapsed = 0
  /\ timer = "unset"
  /\ sent = <<>>
  /\ serverUp = TRUE
  /\ jsonCalls = 0

\* GET /overview after validation: getOverview(days), and the first request
GetOverviewStart ==
  /\ otxPc = "idle"
  /\ \E n \in 1..MaxDays : days' = n
  /\ otxPc' = "fetching"
  /\ candidate' = 1
  /\ requests' = <<Url(1)>>
  /\ served' = <<>>
  /\ attempts' = <<>>
  /\ results' = <<>>
  /\ overview' = NoOverview
  /\ UNCHANGED <<zone, now>>
  /\ UNCHANGED <<aiVars, nlpVars, batchVars, checkVars, pulseVars, reportVars>>

\* the draws a call can make: none is made on the real-data path
StreamsDrawn(data) ==
  IF hasRealData(Filter(data, daysAgoISO(zone, now, days)))
  THEN {"zero"} ELSE RandomStreams

\* fetchPulses returns {results, attempts} and the rest of getOverview runs
Finish(data, att) ==
  /\ otxPc' = "done"
  /\ attempts' = att
  /\ results' = data
  /\ \E stream \in StreamsDrawn(data) :
       overview' = getOverview(data, att, zone, now, days, stream)
  /\ UNCHANGED <<candidate, requests>>

\* the for loop moves to the next candidate, or ends
Continue(att) ==
  IF candidate = 3 THEN Finish(<<>>, att)
  ELSE /\ candidate' = candidate + 1
       /\ requests' = Append(requests, Url(candidate + 1))
       /\ attempts' = att
       /\ UNCHANGED <<otxPc, results, overview>>

\* the network's record of one answer
Answer(status, outcome, items) ==
  [url |-> Url(candidate), status |-> status, outcome |-> outcome, items |-> items]

\* variant: the catch block does not record the failed attempt
EndpointFailsUnrecorded ==
  /\ otxPc = "fetching"
  /\ \E status \in FailureStatuses :
       /\ served' = Append(served, Answer(status, "failed", <<>>))
       /\ Continue(attempts)
  /\ UNCHANGED <<zone, now, days>>
  /\ UNCHANGED <<aiVars, nlpVars, batchVars, checkVars, pulseVars, reportVars>>

\* axios.get rejects (network error, timeout, non-2xx status): lines 71-75
EndpointFails ==
  /\ otxPc = "fetching"
  /\ \E status \in FailureStatuses :
       /\ served' = Append(served, Answer(status, "failed", <<>>))
       /\ Continue(Append(attempts,
                          [url |-> Url(candidate), status |-> status,
                           error |-> "request failed"]))
  /\ UNCHANGED <<zone, now, days>>
  /\ UNCHANGED <<aiVars, nlpVars, batchVars, checkVars, pulseVars, reportVars>>

\* variant: the loop does not return at the first non-empty list; the last
\* list read is returned once all candidates are tried
EndpointRespondsKeepsGoing ==
  /\ otxPc = "fetching"
  /\ \E body \in ResponseBodies :
       LET recorded == Append(attempts, [url |-> Url(candidate), status |-> 200])
           data == UsableData(candidate, body)
       IN /\ served' = Append(served,
                              Answer(200, IF data # <<>> THEN "data" ELSE "empty", data))
          /\ IF candidate = 3 THEN Finish(data, recorded) ELSE Continue(recorded)
  /\ UNCHANGED <<zone, now, days>>
  /\ UNCHANGED <<aiVars, nlpVars, batchVars, checkVars, pulseVars, reportVars>>

\* axios.get resolves: lines 68-70, and lines 71-75 when the parser throws
EndpointResponds ==
  /\ otxPc = "fetching"
  /\ \E body \in ResponseBodies :
       LET recorded == Append(attempts, [url |-> Url(candidate), status |-> 200])
       IN IF ParserThrows(body)
          THEN /\ served' = Append(served, Answer(200, "unparsable", <<>>))
               /\ Continue(Append(recorded,
                                  [url |-> Url(candidate), status |-> 0,
                                   error |-> "TypeError"]))
          ELSE IF UsableData(candidate, body) # <<>>
               THEN /\ served' = Append(served,
                                        Answer(200, "data", UsableData(candidate, body)))
                    /\ Finish(UsableData(candidate, body), recorded)
          ELSE /\ served' = Append(served, Answer(200, "empty", <<>>))
               /\ Continue(recorded)
  /\ UNCHANGED <<zone, now, days>>
  /\ UNCHANGED <<aiVars, nlpVars, batchVars, checkVars, pulseVars, reportVars>>

\* the response is sent; the next request may arrive
NextOverview ==
  /\ otxPc = "done"
  /\ otxPc' = "idle"
  /\ requests' = <<>>
  /\ served' = <<>>
  /\ attempts' = <<>>
  /\ results' = <<>>
  /\ overview' = NoOverview
  /\ candidate' = 1
  /\ UNCHANGED <<zone, now, days>>
  /\ UNCHANGED <<aiVars, nlpVars, batchVars, checkVars, pulseVars, reportVars>>

OtxNext ==
  \/ GetOverviewStart
  \/ EndpointFails
  \/ EndpointResponds
  \/ NextOverview

SpecOTX == InitOTX /\ [][OtxNext]_vars

SpecAI == InitAI /\ [][AINext]_vars

\* the engine's own steps are taken when enabled; the provider owes nothing
FairSpecAI ==
  /\ SpecAI
  /\ WF_vars(AnalyzeThreatNoKey)
  /\ WF_vars(AnalyzeThreatCall)
  /\ WF_vars(NextCall)

(***************************************************************************)
(* The security text analyzer, one call at a time                          *)
(***************************************************************************)
AnalyzeSecurityText ==
  /\ nlpFunction = "analyzeSecurityText"
  /\ nlpOutcome = NoOutcome
  /\ nlpOutcome' = analyzeSecurityText(nlpInput)
  /\ UNCHANGED <<nlpInput, nlpFunction>>
  /\ UNCHANGED <<aiVars, otxVars, batchVars, checkVars, pulseVars, reportVars>>

ClassifySecurityText ==
  /\ nlpFunction = "classifySecurityText"
  /\ nlpOutcome = NoOutcome
  /\ nlpOutcome' = classifySecurityText(nlpInput)
  /\ UNCHANGED <<nlpInput, nlpFunction>>
  /\ UNCHANGED <<aiVars, otxVars, batchVars, checkVars, pulseVars, reportVars>>

\* the next call, with any argument
NextText ==
  /\ nlpOutcome # NoOutcome
  /\ nlpInput' \in NlpInputs
  /\ nlpFunction' \in {"analyzeSecurityText", "classifySecurityText"}
  /\ nlpOutcome' = NoOutcome
  /\ UNCHANGED <<aiVars, otxVars, batchVars, checkVars, pulseVars, reportVars>>

NlpNext ==
  \/ AnalyzeSecurityText
  \/ ClassifySecurityText
  \/ NextText

(***************************************************************************)
(* POST /api/nlp/batch-analyze, one request at a time                      *)
(***************************************************************************)
\* the handler, from validation to res.json; the callback of texts.map is
\* synchronous
BatchAnalyze ==
  /\ batchResponse = NoResponse
  /\ \E faults \in SUBSET (1..Len(batchBody.texts)) :
       /\ batchAnalysisSchemaError(batchBody) => faults = {}
       /\ batchFaults' = faults
       /\ batchResponse' = batchAnalyze(batchBody, faults)
  /\ UNCHANGED batchBody
  /\ UNCHANGED <<aiVars, otxVars, nlpVars, checkVars, pulseVars, reportVars>>

NextBatch ==
  /\ batchResponse # NoResponse
  /\ batchBody' \in BatchBodies
  /\ batchFaults' = {}
  /\ batchResponse' = NoResponse
  /\ UNCHANGED <<aiVars, otxVars, nlpVars, checkVars, pulseVars, reportVars>>

BatchNext ==
  \/ BatchAnalyze
  \/ NextBatch

(***************************************************************************)
(* POST /api/breach-lookup/check, one request at a time                    *)
(***************************************************************************)
\* lines 26-33: the body fails lookupSchema
CheckRejected ==
  /\ checker = "none"
  /\ sent = <<>>
  /\ ~checkBody.emailValid
  /\ sent' = <<CheckResponse(400, FALSE, NoRisk)>>
  /\ jsonCalls' = jsonCalls + 1
  /\ UNCHANGED <<checkBody, checkerOut, checker, elapsed, timer, serverUp>>
  /\ UNCHANGED <<aiVars, otxVars, nlpVars, batchVars, pulseVars, reportVars>>

\* lines 35-145: spawn, the listeners, setTimeout; the executable may be
\* missing, which the child reports by an 'error' event later
CheckSpawns ==
  /\ checker = "none"
  /\ sent = <<>>
  /\ checkBody.emailValid
  /\ checker' \in {"running", "failed"}
  /\ timer' = "armed"
  /\ elapsed' = 0
  /\ UNCHANGED <<checkBody, checkerOut, sent, serverUp, jsonCalls>>
  /\ UNCHANGED <<aiVars, otxVars, nlpVars, batchVars, pulseVars, reportVars>>

\* the 'error' event of the child has no listener: it is thrown, and
\* nothing catches it
SpawnError ==
  /\ checker = "failed"
  /\ serverUp
  /\ serverUp' = FALSE
  /\ UNCHANGED <<checkBody, checkerOut, checker, elapsed, timer, sent, jsonCalls>>
  /\ UNCHANGED <<aiVars, otxVars, nlpVars, batchVars, pulseVars, reportVars>>

\* time passes while the timer is pending; a failed spawn is reported
\* before any time has passed
Tick ==
  /\ timer = "armed"
  /\ serverUp
  /\ checker # "failed"
  /\ elapsed < TimeoutMs
  /\ elapsed' = elapsed + TickMs
  /\ UNCHANGED <<checkBody, checkerOut, checker, timer, sent, serverUp, jsonCalls>>
  /\ UNCHANGED <<aiVars, otxVars, nlpVars, batchVars, pulseVars, reportVars>>

\* the checker exits by itself: the 'close' listener answers
CheckerCloses ==
  /\ checker = "running"
  /\ serverUp
  /\ checker' = "exited"
  /\ sent' = Append(sent, closeResponse(checkBody, checkerOut))
  /\ jsonCalls' = jsonCalls + 1
  /\ UNCHANGED <<checkBody, checkerOut, elapsed, timer, serverUp>>
  /\ UNCHANGED <<aiVars, otxVars, nlpVars, batchVars, pulseVars, reportVars>>

\* the timer callback with an empty body
TimerFiresQuietly ==
  /\ timer = "armed"
  /\ serverUp
  /\ elapsed >= TimeoutMs
  /\ timer' = "fired"
  /\ UNCHANGED <<checkBody, checkerOut, checker, elapsed, sent, serverUp, jsonCalls>>
  /\ UNCHANGED <<aiVars, otxVars, nlpVars, batchVars, pulseVars, reportVars>>

\* the timer callback of lines 137-145
TimerFires ==
  /\ timer = "armed"
  /\ serverUp
  /\ elapsed >= TimeoutMs
  /\ timer' = "fired"
  /\ IF sent = <<>>
       THEN /\ checker' = "killed"
            /\ sent' = <<CheckResponse(408, FALSE, NoRisk)>>
            /\ jsonCalls' = jsonCalls + 1
       ELSE UNCHANGED <<checker, sent, jsonCalls>>
  /\ UNCHANGED <<checkBody, checkerOut, elapsed, serverUp>>
  /\ UNCHANGED <<aiVars, otxVars, nlpVars, batchVars, pulseVars, reportVars>>

\* the killed checker closes with code null: the 'close' listener calls
\* res.status(500).json(...) on the answered response, which throws out of
\* the listener
KilledCloses ==
  /\ checker = "killed"
  /\ serverUp
  /\ checker' = "exited"
  /\ serverUp' = FALSE
  /\ jsonCalls' = jsonCalls + 1
  /\ UNCHANGED <<checkBody, checkerOut, elapsed, timer, sent>>
  /\ UNCHANGED <<aiVars, otxVars, nlpVars, batchVars, pulseVars, reportVars>>

\* the next request, once this one has nothing pending
NextCheck ==
  /\ serverUp
  /\ sent # <<>>
  /\ timer # "armed"
  /\ checker \in {"none", "exited"}
  /\ checkBody' \in CheckBodies
  /\ checkerOut' \in CheckerOutputs
  /\ checker' = "none"
  /\ elapsed' = 0
  /\ timer' = "unset"
  /\ sent' = <<>>
  /\ jsonCalls' = 0
  /\ UNCHANGED serverUp
  /\ UNCHANGED <<aiVars, otxVars, nlpVars, batchVars, pulseVars, reportVars>>

CheckNext ==
  \/ CheckRejected
  \/ CheckSpawns
  \/ SpawnError
  \/ Tick
  \/ CheckerCloses
  \/ TimerFires
  \/ KilledCloses
  \/ NextCheck

(***************************************************************************)
(* tagCategory and severityFromPulse, one pulse at a time                  *)
(***************************************************************************)
DerivePulse ==
  /\ derived = NoDerived
  /\ derived' = [severity |-> severityFromPulse(pulse),
                 category |-> tagCategory(pulse.tags)]
  /\ UNCHANGED pulse
  /\ UNCHANGED <<aiVars, otxVars, nlpVars, batchVars, checkVars, reportVars>>

PulseNext == DerivePulse

(***************************************************************************)
(* The scan report routes, one request at a time                           *)
(***************************************************************************)
\* POST /api/reports, lines 155-244
PostReport ==
  /\ \E body \in ReportBodies :
       IF ~body.valid \/ report.exists
       THEN /\ reportReply' = ReportReply("POST", 400, report)
            /\ UNCHANGED report
       ELSE \E outcome \in AnalysisOutcomes(body.findings) :
              LET created == preSave(NewReport(body.findings, reportClock), reportClock)
                  summed == IF body.hasFindings /\ Len(body.findings) > 0
                            THEN preSave([created EXCEPT
                                            !.summary = calculateSummary(body.findings)],
                                         reportClock)
                            ELSE created
                  analysed == IF body.hasFindings /\ Len(body.findings) > 0
                                   /\ outcome.status = "ok"
                              THEN preSave([summed EXCEPT
                                              !.ai_analysis = AiAnalysis(outcome.value)],
                                           reportClock)
                              ELSE summed
              IN /\ report' = analysed
                 /\ reportReply' = ReportReply("POST", 201, NoReport)
  /\ UNCHANGED reportClock
  /\ UNCHANGED <<aiVars, otxVars, nlpVars, batchVars, checkVars, pulseVars>>

\* PUT /api/reports/:id, lines 251-301
PutReport ==
  /\ \E body \in UpdateBodies :
       IF ~body.valid
       THEN /\ reportReply' = ReportReply("PUT", 400, report)
            /\ UNCHANGED report
       ELSE IF ~report.exists
       THEN /\ reportReply' = ReportReply("PUT", 404, NoReport)
            /\ UNCHANGED report
       ELSE LET assigned == ObjectAssign(report, body)
                ended == IF body.status = "completed" /\ assigned.status # "completed"
                         THEN [assigned EXCEPT !.end_time = reportClock]
                         ELSE assigned
                summed == IF body.hasFindings
                          THEN [ended EXCEPT !.summary = calculateSummary(ended.findings)]
                          ELSE ended
            IN /\ report' = preSave(summed, reportClock)
               /\ reportReply' = ReportReply("PUT", 200, report)
  /\ UNCHANGED reportClock
  /\ UNCHANGED <<aiVars, otxVars, nlpVars, batchVars, checkVars, pulseVars>>

\* DELETE /api/reports/:id, lines 308-334
DeleteReport ==
  /\ IF report.exists
     THEN /\ report' = NoReport
          /\ reportReply' = ReportReply("DELETE", 200, report)
     ELSE /\ reportReply' = ReportReply("DELETE", 404, NoReport)
          /\ UNCHANGED report
  /\ UNCHANGED reportClock
  /\ UNCHANGED <<aiVars, otxVars, nlpVars, batchVars, checkVars, pulseVars>>

\* time passes between requests, 0.7 s at a time
ReportClockTicks ==
  /\ reportClock < MaxClock * 700
  /\ reportClock' = reportClock + 700
  /\ UNCHANGED <<report, reportReply>>
  /\ UNCHANGED <<aiVars, otxVars, nlpVars, batchVars, checkVars, pulseVars>>

ReportsNext ==
  \/ PostReport
  \/ PutReport
  \/ DeleteReport
  \/ ReportClockTicks

SpecNLP == InitNLP /\ [][NlpNext]_vars

SpecBatch == InitBatch /\ [][BatchNext]_vars

SpecCheck == InitCheck /\ [][CheckNext]_vars

\* the handler's own steps and the event loop's timer are taken when
\* enabled; the checker process owes nothing
FairSpecCheck ==
  /\ SpecCheck
  /\ WF_vars(CheckRejected)
  /\ WF_vars(CheckSpawns)
  /\ WF_vars(Tick)
  /\ WF_vars(TimerFires)

SpecPulse == InitPulse /\ [][PulseNext]_vars

SpecReports == InitReports /\ [][ReportsNext]_vars

(***************************************************************************)
(* Properties of the threat assessment engine (SpecAI, FairSpecAI)         *)
(***************************************************************************)
FallbackRaw == <<"Fallback analysis - AI service unavailable">>

\* C1: with no provider credential, analyzeThreat returns the rule-table
\* verdict of the input's severity: critical -> 90/critical, high -> 75/high,
\* low -> 25/low, anything else -> 50/medium, always with confidence 0.6.
C1_FallbackRuleTable ==
  (aiPc = "returned" /\ ~apiKey) =>
    /\ verdict.confidence = 60
    /\ threatData.severity = "critical" =>
         verdict.riskScore = 90 /\ verdict.threatLevel = "critical"
    /\ threatData.severity = "high" =>
         verdict.riskScore = 75 /\ verdict.threatLevel = "high"
    /\ threatData.severity = "low" =>
         verdict.riskScore = 25 /\ verdict.threatLevel = "low"
    /\ threatData.severity \notin {"critical", "high", "low"} =>
         verdict.riskScore = 50 /\ verdict.threatLevel = "medium"

\* C1 witness: an unrecognized severity answered without a credential
C1_Witness ==
  /\ aiPc = "returned"
  /\ ~apiKey
  /\ threatData.severity = "info"
  /\ verdict.riskScore = 50
  /\ verdict.confidence = 60

\* C2: whatever the input and the provider outcome (no credential, rejected
\* call, missing or malformed response), a settled analyzeThreat call has
\* returned a verdict carrying all eight fields; it never throws.
C2_AlwaysReturnsVerdict ==
  /\ aiPc \in {"idle", "awaiting", "returned"}
  /\ aiPc = "returned" => DOMAIN verdict = VerdictFields
  /\ aiPc # "returned" => verdict = NoVerdict

\* C2 witness: the provider call failed and the fallback verdict came back
C2_Witness ==
  /\ aiPc = "returned"
  /\ apiKey
  /\ verdict.rawResponse = FallbackRaw
  /\ threatData.severity = "critical"
  /\ verdict.riskScore = 90

\* the score-to-level mapping of the specification
LevelOfScore(score) ==
  IF score >= 80 THEN "critical"
  ELSE IF score >= 60 THEN "high"
  ELSE IF score >= 30 THEN "medium"
  ELSE "low"

\* C3: every returned verdict, provider-backed or fallback, has threatLevel
\* equal to the level of its riskScore under the breakpoints 80 / 60 / 30.
C3_ScoreLevelConsistent ==
  aiPc = "returned" => verdict.threatLevel = LevelOfScore(verdict.riskScore)

\* C4: every returned verdict has 0 <= riskScore <= 100 and
\* 0 <= confidence <= 1, whatever numbers the provider's text holds.
C4_VerdictRanges ==
  aiPc = "returned" =>
    /\ 0 <= verdict.riskScore /\ verdict.riskScore <= 100
    /\ 0 <= verdict.confidence /\ verdict.confidence <= 100

\* C5: within one call the provider is contacted zero times without a
\* credential and at most once with one; a call that fell back after the
\* provider failed made exactly one attempt.
C5_SingleProviderAttempt ==
  /\ ~apiKey => providerCalls = 0
  /\ providerCalls <= 1
  /\ (aiPc \in {"awaiting", "returned"} /\ apiKey) => providerCalls = 1

\* C5 witness: one attempt was made, it failed, the fallback verdict came back
C5_Witness ==
  /\ aiPc = "returned"
  /\ apiKey
  /\ providerCalls = 1
  /\ verdict.rawResponse = FallbackRaw

\* C6: the provider call is bounded by a timeout: a call that awaits the
\* provider eventually returns even if the provider never answers.
C6_ProviderCallTimesOut == (aiPc = "awaiting") ~> (aiPc = "returned")

(***************************************************************************)
(* Properties of the threat-intel aggregator (SpecOTX)                     *)
(***************************************************************************)
\* position of an endpoint in the fixed order
EndpointRank(url) ==
  CASE url = "/pulses/subscribed" -> 1
    [] url = "/search/pulses" -> 2
    [] url = "/pulses" -> 3

\* C7: the endpoints are requested in the order subscribed feed, wildcard
\* search, generic listing, each at most once; endpoint k+1 is requested
\* only after endpoint k failed or gave no list entries; nothing is
\* requested after a non-empty list, which is what fetchPulses returns.
C7_OrderedFallbackChain ==
  /\ Len(requests) <= 3
  /\ \A i \in 1..Len(requests) : EndpointRank(requests[i]) = i
  /\ Len(served) <= Len(requests)
  /\ \A i \in 1..Len(served) :
       /\ served[i].url = requests[i]
       /\ i < Len(requests) => served[i].outcome # "data"
       /\ served[i].outcome = "data" =>
            /\ otxPc = "done"
            /\ results = served[i].items
            /\ results # <<>>
  /\ (otxPc = "done" /\ \A i \in 1..Len(served) : served[i].outcome # "data") =>
       /\ results = <<>>
       /\ Len(requests) = 3

\* C7 witness: the first endpoint was empty, the second delivered pulses
C7_Witness ==
  /\ otxPc = "done"
  /\ Len(requests) = 2
  /\ served[1].outcome = "empty"
  /\ served[2].outcome = "data"

\* C8: every endpoint request is recorded in attempts, with its url and
\* status and with an error when it failed, in request order, whatever its
\* outcome; raw.attempts of getOverview is this list on both paths.
C8_EveryAttemptRecorded ==
  /\ \A i \in 1..Len(served) :
       /\ \E j \in 1..Len(attempts) :
            attempts[j].url = served[i].url /\ attempts[j].status = served[i].status
       /\ served[i].outcome \in {"failed", "unparsable"} =>
            \E j \in 1..Len(attempts) :
              attempts[j].url = served[i].url /\ "error" \in DOMAIN attempts[j]
  /\ \A j \in 1..Len(attempts) :
       \E i \in 1..Len(served) : served[i].url = attempts[j].url
  /\ \A j, k \in 1..Len(attempts) :
       j < k => EndpointRank(attempts[j].url) <= EndpointRank(attempts[k].url)
  /\ otxPc = "done" => overview.raw.attempts = attempts

\* C8 witness: a failed request and a successful one, both on record, on the
\* real-data path
C8_Witness ==
  /\ otxPc = "done"
  /\ ~overview.raw.usingFallback
  /\ Len(served) = 2
  /\ served[1].outcome = "failed"
  /\ Len(attempts) = 2

\* C9: usingFallback is true exactly when no retrieved pulse lies in the
\* window; a fallback overview still has non-empty threatTrends, topThreats
\* and riskDistribution; endpoint failures end in an overview, not an error.
C9_FallbackWhenNoRecentPulse ==
  otxPc = "done" =>
    /\ overview.raw.usingFallback =
         (\A i \in 1..Len(results) :
            ~InWindow(results[i], daysAgoISO(zone, now, days)))
    /\ overview.raw.usingFallback =>
         /\ Len(overview.threatTrends) > 0
         /\ Len(overview.topThreats) > 0
         /\ \A sev \in {"critical", "high", "medium", "low"} :
              overview.riskDistribution[sev] > 0
    /\ (\A i \in 1..Len(served) : served[i].outcome # "data") =>
         overview.raw.usingFallback

\* C9 witness: all three endpoints failed
C9_Witness ==
  /\ otxPc = "done"
  /\ overview.raw.usingFallback
  /\ Len(served) = 3
  /\ \A i \in 1..3 : served[i].outcome = "failed"

\* the UTC calendar day of the call
Today == now \div 24

\* C10: threatTrends has exactly days entries, for the consecutive calendar
\* days ending on the current date, on both paths; on the real-data path a
\* day without pulses has threats = 0 and resolved = 0.
C10_ConsecutiveTrendDays ==
  otxPc = "done" =>
    /\ Len(overview.threatTrends) = days
    /\ \A j \in 1..Len(overview.threatTrends) :
         overview.threatTrends[j].date = Today - (days - j)
    /\ ~overview.raw.usingFallback =>
         \A j \in 1..Len(overview.threatTrends) :
           (\A i \in 1..Len(results) :
              InWindow(results[i], daysAgoISO(zone, now, days)) =>
                DateKey(results[i], now) # overview.threatTrends[j].date)
             => /\ overview.threatTrends[j].threats = 0
                /\ overview.threatTrends[j].resolved = 0

(***************************************************************************)
(* Properties of the batch analyzer (SpecBatch)                            *)
(***************************************************************************)
\* C11: a batch of N texts that passes validation is answered with N
\* results, the result at position i carrying index i (counted from 0), and
\* with summary.successful + summary.failed = summary.total = N; a text
\* whose analysis fails gets a success=false entry at its own position, and
\* every other text gets the analysis it would get alone.
C11_BatchIndexedResults ==
  (batchResponse # NoResponse /\ ~batchAnalysisSchemaError(batchBody)) =>
    LET texts == batchBody.texts
        N == Len(texts)
        type == IF batchBody.analysis_type = "absent"
                  THEN "security" ELSE batchBody.analysis_type
        out == batchResponse.results
        summary == batchResponse.summary
    IN /\ batchResponse.status = 200
       /\ Len(out) = N
       /\ \A i \in 1..N : out[i].index = i - 1
       /\ summary.total = N
       /\ summary.successful + summary.failed = summary.total
       /\ summary.failed = Cardinality(batchFaults)
       /\ \A i \in 1..N :
            IF i \in batchFaults THEN ~out[i].success
            ELSE /\ out[i].success
                 /\ out[i].analysis = Analysis(texts[i], type).value

\* a batch of two texts in which the first analysis failed and the second
\* did not
C11_Witness ==
  /\ batchResponse # NoResponse
  /\ batchResponse.status = 200
  /\ Len(batchBody.texts) = 2
  /\ batchFaults = {1}
  /\ batchResponse.results[2].success

(***************************************************************************)
(* Properties of the security text analyzer (SpecNLP)                      *)
(***************************************************************************)
\* the words of a text as the tokenizer delivers them
TokensOf(text) == SelectSeq(textToLowerCase(text), LAMBDA w : w # ".")

\* 2*|sentimentScore| + 5*keywordHits + 8*urgencyWordCount + 10*threatWordCount
RawThreatScore(text) ==
  LET s == sentimentAnalyze(text).score
      keywordHits == Cardinality({k \in 1..Len(securityKeywords) :
                       textIncludes(textToLowerCase(text), securityKeywords[k])})
      urgencyWordCount ==
        Cardinality({i \in 1..Len(TokensOf(text)) : TokensOf(text)[i] \in
                       {"urgent", "critical", "immediate", "emergency", "asap"}})
      threatWordCount ==
        Cardinality({i \in 1..Len(TokensOf(text)) : TokensOf(text)[i] \in
                       {"attack", "breach", "hack", "exploit", "malware"}})
  IN 2 * (IF s < 0 THEN -s ELSE s) + 5 * keywordHits + 8 * urgencyWordCount
       + 10 * threatWordCount

AnalyzerReturned ==
  /\ nlpFunction = "analyzeSecurityText"
  /\ nlpOutcome # NoOutcome
  /\ ~nlpOutcome.thrown

\* C14: for every text, security.threatScore is
\* min(100, 2*|sentimentScore| + 5*keywordHits + 8*urgencyWordCount
\* + 10*threatWordCount), lies in 0..100, and security.threatLevel is the
\* image of that score under >= 80 critical, >= 60 high, >= 30 medium, else
\* low.
C14_ThreatScoreFormula ==
  AnalyzerReturned =>
    LET raw == RawThreatScore(nlpInput.words)
        security == nlpOutcome.value.security
    IN /\ security.threatScore = (IF raw < 100 THEN raw ELSE 100)
       /\ security.threatScore \in 0..100
       /\ security.threatLevel = LevelOfScore(security.threatScore)

\* a text whose sum is above 100 was analyzed
C14_Witness ==
  /\ AnalyzerReturned
  /\ RawThreatScore(nlpInput.words) > 100
  /\ nlpOutcome.value.security.threatLevel = "critical"

\* C15: analyzeSecurityText throws only for an argument that is null or no
\* string; for every string it returns a result with all its fields, and
\* for the empty string that result has threatScore 0, threatLevel low, no
\* words, and empty keyword, entity and key-phrase lists.
C15_ThrowsOnlyForNonStrings ==
  (nlpFunction = "analyzeSecurityText" /\ nlpOutcome # NoOutcome) =>
    /\ nlpOutcome.thrown => nlpInput.type # "string"
    /\ nlpInput.type = "string" =>
         /\ ~nlpOutcome.thrown
         /\ DOMAIN nlpOutcome.value =
              {"sentiment", "security", "entities", "keyPhrases", "metadata"}
         /\ nlpOutcome.value.security.threatScore \in 0..100
         /\ nlpOutcome.value.security.threatLevel \in Severities
         /\ nlpOutcome.value.security.confidence \in 0..100
    /\ nlpInput = StringInput(<<>>) =>
         /\ nlpOutcome.value.security.threatScore = 0
         /\ nlpOutcome.value.security.threatLevel = "low"
         /\ nlpOutcome.value.security.keywords = <<>>
         /\ \A f \in DOMAIN nlpOutcome.value.entities :
              nlpOutcome.value.entities[f] = <<>>
         /\ nlpOutcome.value.keyPhrases = <<>>
         /\ nlpOutcome.value.sentiment.score = 0
         /\ nlpOutcome.value.metadata.wordCount = 0

\* the empty string was analyzed
C15_Witness ==
  /\ AnalyzerReturned
  /\ nlpInput = StringInput(<<>>)

\* C16: classifySecurityText never throws, whatever its argument, and its
\* primaryCategory is one of breach, malware, phishing, ddos, vulnerability,
\* insider, general: general exactly when all six scores are 0, otherwise a
\* category whose score is the largest of the six.
C16_ClassifyNeverThrows ==
  (nlpFunction = "classifySecurityText" /\ nlpOutcome # NoOutcome) =>
    /\ ~nlpOutcome.thrown
    /\ LET primary == nlpOutcome.value.primaryCategory
           scores == nlpOutcome.value.scores
       IN /\ primary \in {"breach", "malware", "phishing", "ddos",
                          "vulnerability", "insider", "general"}
          /\ primary = "general" <=> \A i \in 1..Len(scores) : scores[i].score = 0
          /\ primary # "general" =>
               \E i \in 1..Len(scores) :
                 /\ scores[i].category = primary
                 /\ \A j \in 1..Len(scores) : scores[j].score <= scores[i].score

(***************************************************************************)
(* Properties of the breach lookup (SpecCheck, FairSpecCheck)              *)
(***************************************************************************)
\* the checker reported breaches and pastes, and the 'close' listener
\* answered with their summary
RiskAnswered ==
  /\ sent # <<>>
  /\ sent[1].success
  /\ checker = "exited"

\* twice 1.5*|breaches| + 0.5*|pastes| + the sum over the breaches of
\* 2 if sensitive, 1 if verified, the size bucket, 2 if a data class is
\* sensitive; from the breaches as the checker reported them
TwiceRawRisk(breaches, pastes) ==
  LET Sensitive(b) ==
        \E i \in 1..Len(b.dataClasses) :
          b.dataClasses[i] \in {"Passwords", "Credit cards", "Social security numbers"}
      Bucket(n) == IF n > 100000000 THEN 3
                   ELSE IF n > 10000000 THEN 2
                   ELSE IF n > 1000000 THEN 1
                   ELSE 0
      Extra(b) == (IF b.isSensitive THEN 2 ELSE 0) + (IF b.isVerified THEN 1 ELSE 0)
                    + Bucket(b.pwnCount) + (IF Sensitive(b) THEN 2 ELSE 0)
      RECURSIVE Total(_)
      Total(bs) == IF bs = <<>> THEN 0 ELSE Extra(Head(bs)) + Total(Tail(bs))
  IN 3 * Len(breaches) + Len(pastes) + 2 * Total(breaches)

\* C12: calculateRiskScore(breaches, pastes) is an integer in 0..10 equal to
\* min(10, round(1.5*|breaches| + 0.5*|pastes| + sum over the breaches of
\* (2 if IsSensitive) + (1 if IsVerified) + (3 if PwnCount > 1e8, else 2 if
\* > 1e7, else 1 if > 1e6) + (2 if a data class contains passwords, credit
\* cards, financial or social security))), and calculateRiskScore([], []) = 0.
C12_RiskScoreFormula ==
  RiskAnswered =>
    LET twice == TwiceRawRisk(checkerOut.breaches, checkerOut.pastes)
        rounded == CHOOSE r \in 0..twice : 2 * r - 1 <= twice /\ twice <= 2 * r
        riskScore == sent[1].summary.riskScore
    IN /\ riskScore \in 0..10
       /\ riskScore = (IF rounded < 10 THEN rounded ELSE 10)
       /\ (checkerOut.breaches = <<>> /\ checkerOut.pastes = <<>>) => riskScore = 0

\* two breaches whose rounded sum is above 10 were scored
C12_Witness ==
  /\ RiskAnswered
  /\ Len(checkerOut.breaches) = 2
  /\ TwiceRawRisk(checkerOut.breaches, checkerOut.pastes) > 21
  /\ sent[1].summary.riskScore = 10

\* the inputs one step above (breaches, pastes): one more breach, one more
\* paste, or one breach made sensitive, verified, larger, or given a
\* sensitive data class
Grown(breaches, pastes) ==
  LET more == {[breaches |-> Append(breaches,
                   [PwnCount |-> b.pwnCount, DataClasses |-> b.dataClasses,
                    IsVerified |-> b.isVerified, IsSensitive |-> b.isSensitive,
                    BreachDate |-> b.breachDate]),
                pastes |-> pastes] : b \in RawBreachCatalog}
      paste == {[breaches |-> breaches,
                 pastes |-> Append(pastes, [Id |-> Len(pastes) + 1])]}
      changed ==
        UNION {{[breaches |-> [breaches EXCEPT ![i].IsSensitive = TRUE],
                 pastes |-> pastes],
                [breaches |-> [breaches EXCEPT ![i].IsVerified = TRUE],
                 pastes |-> pastes],
                [breaches |-> [breaches EXCEPT ![i].DataClasses =
                                 Append(@, "Passwords")],
                 pastes |-> pastes]}
               \cup {[breaches |-> [breaches EXCEPT ![i].PwnCount = n],
                      pastes |-> pastes] :
                       n \in {m \in {1000001, 10000001, 100000001, 200000000} :
                                m >= breaches[i].PwnCount}}
               : i \in 1..Len(breaches)}
  IN more \cup paste \cup changed

TierRank(level) ==
  CASE level = "low" -> 0
    [] level = "medium" -> 1
    [] level = "high" -> 2
    [] level = "critical" -> 3

\* C13: calculateRiskScore never decreases when a breach or a paste is
\* added, or a breach becomes sensitive, verified, larger, or exposes a
\* sensitive data class; so the tier of riskLevel (>= 8 critical, >= 6 high,
\* >= 4 medium, else low; riskLevel(0) = low) never decreases either.
C13_RiskScoreMonotone ==
  RiskAnswered =>
    LET summary == sent[1].summary
        pastes == [i \in 1..Len(checkerOut.pastes) |-> [Id |-> checkerOut.pastes[i].id]]
    IN /\ summary.severity =
            (IF summary.riskScore >= 8 THEN "critical"
             ELSE IF summary.riskScore >= 6 THEN "high"
             ELSE IF summary.riskScore >= 4 THEN "medium"
             ELSE "low")
       /\ summary.riskScore = 0 => summary.severity = "low"
       /\ \A g \in Grown(summary.breaches, pastes) :
            /\ calculateRiskScore(g.breaches, g.pastes) >= summary.riskScore
            /\ TierRank(getRiskLevel(calculateRiskScore(g.breaches, g.pastes)))
                 >= TierRank(summary.severity)

\* a scored input in tier high that one change lifts to critical
C13_Witness ==
  /\ RiskAnswered
  /\ sent[1].summary.severity = "high"
  /\ \E g \in Grown(sent[1].summary.breaches,
                    [i \in 1..Len(checkerOut.pastes) |-> [Id |-> i]]) :
       getRiskLevel(calculateRiskScore(g.breaches, g.pastes)) = "critical"

C18_ResolvedIsSeventyPercent ==
  (otxPc = "done" /\ ~overview.raw.usingFallback) =>
    \A j \in 1..Len(overview.threatTrends) :
      overview.threatTrends[j].resolved =
        (7 * overview.threatTrends[j].threats + 5) \div 10

\* a tag contains one of the words, whatever its case
TagHas(tag, words) == TagWords[TagLower[tag]] \cap words # {}

\* C19: severityFromPulse takes base 10 for 30 or more indicators, 7 for 15
\* or more, 4 for 7 or more, else 2 (no indicators when the field is not a
\* list); adds 4 if a tag contains ransomware or apt, otherwise 3 if a tag
\* contains malware, ddos or botnet, otherwise 2 if a tag contains phishing;
\* and returns critical from 10, high from 7, medium from 4, else low.  So
\* the severity never decreases when the indicator count grows and the tags
\* stay.
C19_SeverityTable ==
  derived # NoDerived =>
    LET SomeTag(words) == \E i \in 1..Len(pulse.tags) : TagHas(pulse.tags[i], words)
        bonus == IF SomeTag({"ransomware", "apt"}) THEN 4
                 ELSE IF SomeTag({"malware", "ddos", "botnet"}) THEN 3
                 ELSE IF SomeTag({"phishing"}) THEN 2
                 ELSE 0
        Base(n) == IF n >= 30 THEN 10 ELSE IF n >= 15 THEN 7
                   ELSE IF n >= 7 THEN 4 ELSE 2
        Severity(n) == IF Base(n) + bonus >= 10 THEN "critical"
                       ELSE IF Base(n) + bonus >= 7 THEN "high"
                       ELSE IF Base(n) + bonus >= 4 THEN "medium"
                       ELSE "low"
        count == IF pulse.indicators = NotArray THEN 0 ELSE pulse.indicators
    IN /\ derived.severity = Severity(count)
       /\ \A n \in count..(count + 30) :
            TierRank(severityFromPulse([pulse EXCEPT !.indicators = n]))
              >= TierRank(derived.severity)

\* 29 indicators and a phishing tag in mixed case: high, one indicator
\* short of critical
C19_Witness ==
  /\ derived # NoDerived
  /\ pulse.indicators = 29
  /\ pulse.tags = <<"Phishing">>
  /\ derived.severity = "high"
  /\ severityFromPulse([pulse EXCEPT !.indicators = 30]) = "critical"

\* the rules of tagCategory, in their order of priority
CategoryRules ==
  << [words |-> {"phishing", "credential"}, category |-> "Phishing Attempts"],
     [words |-> {"ransomware", "malware", "botnet"}, category |-> "Malware Detections"],
     [words |-> {"bruteforce", "credential", "unauthorized"},
      category |-> "Unauthorized Access"],
     [words |-> {"exfiltr", "leak"}, category |-> "Data Exfiltration"],
     [words |-> {"ddos", "dos"}, category |-> "DDoS Attacks"] >>

\* C20: tagCategory returns exactly one of the six categories: that of the
\* first rule, in the fixed order, that some tag matches by a substring
\* whatever its case, and Other when no rule matches; a later rule applies
\* only when no tag matches an earlier one.
C20_FirstMatchingRule ==
  derived # NoDerived =>
    LET Matches(k) ==
          \E i \in 1..Len(pulse.tags) : TagHas(pulse.tags[i], CategoryRules[k].words)
        matching == {k \in 1..Len(CategoryRules) : Matches(k)}
    IN /\ derived.category \in
            {CategoryRules[k].category : k \in 1..Len(CategoryRules)} \cup {"Other"}
       /\ matching = {} => derived.category = "Other"
       /\ matching # {} =>
            \E k \in matching :
              /\ \A e \in matching : k <= e
              /\ derived.category = CategoryRules[k].category

\* a tag of the last rule in mixed case before a tag of the first rule
C20_Witness ==
  /\ derived # NoDerived
  /\ pulse.tags = <<"DDoS", "credential-theft">>
  /\ derived.category = "Phishing Attempts"

(***************************************************************************)
(* Properties of parseAIResponse (SpecAI)                                  *)
(***************************************************************************)
\* positions of a capture that follows the label with nothing but ':' and
\* white space between them
AfterLabel(text, label, captures) ==
  {j \in 1..Len(text) :
     /\ text[j] \in captures
     /\ \E i \in 1..(j - 1) :
          /\ text[i] = label
          /\ \A k \in (i + 1)..(j - 1) : text[k] \in {":", " ", "\n"}}

FirstAfter(text, label, captures) ==
  text[CHOOSE j \in AfterLabel(text, label, captures) :
         \A k \in AfterLabel(text, label, captures) : j <= k]

RECURSIVE Ascending(_)
\* the members of a set of numbers in increasing order
Ascending(S) ==
  IF S = {} THEN <<>>
  ELSE LET m == CHOOSE x \in S : \A y \in S : x <= y
       IN <<m>> \o Ascending(S \ {m})

\* the texts of the '-' bullet lines below a line that holds the section word;
\* a line that holds the word is a section line, never a bullet
BulletsBelow(response, word) ==
  LET lines == Split(response, <<>>)
      picked == {k \in 1..Len(lines) :
                   /\ IsBullet(lines[k])
                   /\ ~includes(lines[k], word)
                   /\ \E m \in 1..(k - 1) : includes(lines[m], word)}
  IN [n \in 1..Cardinality(picked) |-> BulletText(lines[Ascending(picked)[n]])]

\* C21: parseAIResponse applies typed defaults field by field: riskScore is
\* the integer after 'risk score' or 50, threatLevel the level word after
\* 'threat level' or 'medium', confidence the decimal after 'confidence' or
\* 0.7; recommendations and keyFindings are the bullet lines below a line
\* holding 'recommendation' / 'finding', or the one-element placeholder list
\* when there is none; a parse exception yields the 50 / medium / 0.5 verdict.
C21_TypedDefaults ==
  (aiPc = "returned" /\ verdict.rawResponse # FallbackRaw) =>
    LET text == verdict.rawResponse
    IN IF text = NullContent
       THEN /\ verdict.riskScore = 50
            /\ verdict.threatLevel = "medium"
            /\ verdict.confidence = 50
       ELSE /\ verdict.riskScore =
                 IF AfterLabel(text, "risk score", NumberTokens) = {} THEN 50
                 ELSE parseInt(DigitRun(FirstAfter(text, "risk score", NumberTokens)))
            /\ verdict.threatLevel =
                 IF AfterLabel(text, "threat level", LevelWords) = {} THEN "medium"
                 ELSE toLowerCase(FirstAfter(text, "threat level", LevelWords))
            /\ verdict.confidence =
                 IF AfterLabel(text, "confidence", NumberTokens) = {} THEN 70
                 ELSE parseFloat(FirstAfter(text, "confidence", NumberTokens))
            /\ verdict.recommendations =
                 IF BulletsBelow(text, "recommendation") = <<>>
                 THEN << <<"Review incident details">> >>
                 ELSE BulletsBelow(text, "recommendation")
            /\ verdict.keyFindings =
                 IF BulletsBelow(text, "finding") = <<>>
                 THEN << <<"Analysis completed">> >>
                 ELSE BulletsBelow(text, "finding")

\* C21 witness: a response with a recommendation section of one bullet and
\* no score, level, confidence or finding
C21_Witness ==
  /\ aiPc = "returned"
  /\ verdict.rawResponse = <<"recommendation", ":", "\n", " ", "-", " ", "patch">>
  /\ verdict.recommendations = << <<"patch">> >>
  /\ verdict.keyFindings = << <<"Analysis completed">> >>
  /\ verdict.riskScore = 50
  /\ verdict.confidence = 70

(***************************************************************************)
(* Properties of getOverview's window and tallies (SpecOTX)                *)
(***************************************************************************)
\* the timestamp of a pulse: modified, else created, else updated
Timestamp(p) ==
  IF p.modified # Absent THEN p.modified
  ELSE IF p.created # Absent THEN p.created
  ELSE p.updated

\* now minus days days: the same local time of day, days calendar days back
WindowStart == daysAgoISO(zone, now, days)

KeptByWindow(p) ==
  \/ Timestamp(p) = Absent
  \/ Timestamp(p) # Invalid /\ Timestamp(p) >= WindowStart

\* the retrieved pulses the window keeps, in order
Retained == SelectSeq(results, KeptByWindow)

\* C22: the window filter keeps a retrieved pulse iff it has no timestamp at
\* all or its timestamp (modified, else created, else updated) is at or
\* after now minus days days; the pulses outside the window contribute
\* nothing to riskDistribution, topThreats, threatTrends or the pulse and
\* indicator counts: the overview is the one of the kept pulses alone.
C22_WindowFilter ==
  otxPc = "done" =>
    /\ overview.raw.usingFallback = (Retained = <<>>)
    /\ Retained # <<>> =>
         /\ overview.raw.pulses = Len(Retained)
         /\ overview = RealOverview(Retained, attempts, zone, now, days)

\* C22 witness: a pulse dated exactly at the start of the window and one
\* before it were retrieved; the first alone is counted
C22_Witness ==
  /\ otxPc = "done"
  /\ Len(results) = 2
  /\ Timestamp(results[1]) = WindowStart
  /\ Timestamp(results[2]) \notin {Absent, Invalid}
  /\ Timestamp(results[2]) < WindowStart
  /\ overview.raw.pulses = 1
  /\ overview.raw.indicators = 2

\* C23: for every outcome of the random draws the synthetic overview is
\* consistent: metrics.totalIncidents is the sum of the four riskDistribution
\* counts, metrics.criticalThreats is riskDistribution.critical, topThreats
\* has exactly five entries with positive counts, and every trend entry has
\* 0 <= resolved <= threats.
C23_FallbackConsistent ==
  (otxPc = "done" /\ overview.raw.usingFallback) =>
    /\ overview.metrics.totalIncidents =
         overview.riskDistribution.critical + overview.riskDistribution.high
           + overview.riskDistribution.medium + overview.riskDistribution.low
    /\ overview.metrics.criticalThreats = overview.riskDistribution.critical
    /\ Len(overview.topThreats) = 5
    /\ \A i \in 1..Len(overview.topThreats) : overview.topThreats[i].count > 0
    /\ \A j \in 1..Len(overview.threatTrends) :
         /\ 0 <= overview.threatTrends[j].resolved
         /\ overview.threatTrends[j].resolved <= overview.threatTrends[j].threats

\* C23 witness: a fallback overview whose draws were all the largest
C23_Witness ==
  /\ otxPc = "done"
  /\ overview.raw.usingFallback
  /\ days = 2
  /\ overview.threatTrends[1].threats = 59
  /\ overview.threatTrends[2].resolved = 52
  /\ overview.riskDistribution.critical = 29

(***************************************************************************)
(* Properties of the scan report routes (SpecReports)                      *)
(***************************************************************************)
\* C24: when PUT /api/reports/:id takes a report from a status other than
\* completed to completed, end_time is the time of the update and the saved
\* duration is floor((end_time - start_time) / 1000); a report that was
\* already completed keeps its end_time.
C24_EndTimeOnCompletion ==
  (reportReply.route = "PUT" /\ reportReply.status = 200
     /\ report.status = "completed") =>
    IF reportReply.foundStatus # "completed"
    THEN /\ report.end_time = report.updated_at
         /\ report.duration = (report.end_time - report.start_time) \div 1000
    ELSE report.end_time = reportReply.foundEndTime

\* the severities from the least to the most severe
SeverityScale == <<"info", "low", "medium", "high", "critical">>

\* the most severe severity among the findings
Highest(findings) ==
  CHOOSE s \in {findings[i] : i \in 1..Len(findings)} :
    \A i \in 1..Len(findings) :
      \E a, b \in 1..Len(SeverityScale) :
        SeverityScale[a] = findings[i] /\ SeverityScale[b] = s /\ a <= b

\* C25: POST /api/reports with at least one finding runs the threat
\* assessment with the highest severity among the findings and has stored
\* its risk score, threat level and recommendations in ai_analysis when the
\* 201 response is sent.
C25_AnalysisStored ==
  (reportReply.route = "POST" /\ reportReply.status = 201
     /\ Len(report.findings) > 0) =>
    /\ report.ai_analysis.present
    /\ \E v \in AnalyzeThreatResults(Highest(report.findings)) :
         /\ report.ai_analysis.risk_score = v.riskScore
         /\ report.ai_analysis.overall_risk = v.threatLevel
         /\ Len(report.ai_analysis.recommendations) = Len(v.recommendations)
         /\ \A i \in 1..Len(v.recommendations) :
              report.ai_analysis.recommendations[i].recommendation
                = v.recommendations[i]

(***************************************************************************)
(* Properties of the breach lookup's responses (SpecCheck)                 *)
(***************************************************************************)
\* C26: under every interleaving of the checker's close event and the 30 s
\* timer at most one response is sent for a request, and no second one is
\* attempted: after the 408 response the close handler of the killed
\* process does not call res.json, and after the close handler has answered
\* the timer sends nothing.
C26_AtMostOneResponse ==
  /\ Len(sent) <= 1
  /\ jsonCalls <= 1

(***************************************************************************)
(* Properties of fetchPulses' attempts and of the real-data tallies        *)
(* (SpecOTX)                                                               *)
(***************************************************************************)
\* C27: the attempts list of fetchPulses holds at most one record for each
\* candidate endpoint, hence at most three records, whatever the endpoints
\* answer, a 2xx response whose body the parser cannot read included.
C27_OneRecordPerEndpoint ==
  /\ Len(attempts) <= 3
  /\ \A j, k \in 1..Len(attempts) :
       j # k => attempts[j].url # attempts[k].url

\* C28: on the real-data path every threatTrends entry has
\* 0 <= resolved <= threats, however many pulses fall on the same day.
C28_ResolvedWithinThreats ==
  (otxPc = "done" /\ ~overview.raw.usingFallback) =>
    \A j \in 1..Len(overview.threatTrends) :
      /\ 0 <= overview.threatTrends[j].resolved
      /\ overview.threatTrends[j].resolved <= overview.threatTrends[j].threats

RECURSIVE SumOf(_)
\* the sum of a list of numbers
SumOf(numbers) ==
  IF numbers = <<>> THEN 0 ELSE Head(numbers) + SumOf(Tail(numbers))

\* max(1, round(0.5 * indicator count)) of a pulse
ThreatsOf(p) ==
  LET count == IF p.indicators = NotArray THEN 0 ELSE p.indicators
      half == (count + 1) \div 2
  IN IF half > 1 THEN half ELSE 1

\* C29: on the real-data path every retained pulse is counted in exactly one
\* threatTrends entry: the threats of the returned entries sum to the sum
\* over the retained pulses of max(1, round(0.5 * indicator count)), also
\* for a pulse dated at the oldest edge of the window.
C29_EveryPulseInOneEntry ==
  (otxPc = "done" /\ ~overview.raw.usingFallback) =>
    SumOf([j \in 1..Len(overview.threatTrends) |-> overview.threatTrends[j].threats])
      = SumOf([i \in 1..Len(Retained) |-> ThreatsOf(Retained[i])])

\* C30: on the real-data path the four riskDistribution counts sum to the
\* number of retained pulses, which is raw.pulses; metrics.criticalThreats
\* is riskDistribution.critical; the counts of topThreats are in
\* non-increasing order, at most five, and sum to at most raw.pulses.
C30_DistributionAndTopThreats ==
  (otxPc = "done" /\ ~overview.raw.usingFallback) =>
    /\ overview.raw.pulses = Len(Retained)
    /\ overview.riskDistribution.critical + overview.riskDistribution.high
         + overview.riskDistribution.medium + overview.riskDistribution.low
         = overview.raw.pulses
    /\ overview.metrics.criticalThreats = overview.riskDistribution.critical
    /\ Len(overview.topThreats) <= 5
    /\ \A i \in 1..(Len(overview.topThreats) - 1) :
         overview.topThreats[i].count >= overview.topThreats[i + 1].count
    /\ SumOf([i \in 1..Len(overview.topThreats) |-> overview.topThreats[i].count])
         <= overview.raw.pulses

\* C30 witness: nine pulses of six categories were retained; the five most
\* frequent categories are listed, the most frequent first
C30_Witness ==
  /\ otxPc = "done"
  /\ ~overview.raw.usingFallback
  /\ overview.raw.pulses = 9
  /\ Len(overview.topThreats) = 5
  /\ overview.topThreats[1] = [name |-> "DDoS Attacks", count |-> 3, change |-> 12]
  /\ overview.topThreats[2].name = "Malware Detections"
  /\ overview.topThreats[2].count = 2
  /\ overview.riskDistribution.critical = 2

====
